---- MODULE Spec2Model ----
(***************************************************************************)
(* A model of rombp, an IPS/BPS ROM patcher: the IPS decoder (ips.c), the  *)
(* patch controller execute_patch and its helpers (main.c).                *)
(*                                                                         *)
(* File contents are byte strings.  ROM images are large (the copy buffer  *)
(* alone is 32768 bytes and IPS offsets are 24 bits wide), so a byte       *)
(* string is kept run-length compressed: a sequence of runs <<n, b>>, n    *)
(* copies of byte b, in canonical form (n > 0, neighbouring runs differ in *)
(* b).  Two byte strings are equal iff their canonical forms are equal.    *)
(***************************************************************************)
EXTENDS Integers, Sequences, FiniteSets, TLC

(***************************************************************************)
(* Byte strings                                                            *)
(***************************************************************************)

Min(a, b) == IF a < b THEN a ELSE b

RECURSIVE BLen(_)
BLen(s) == IF s = <<>> THEN 0 ELSE Head(s)[1] + BLen(Tail(s))

\* n copies of byte b
BFill(n, b) == IF n <= 0 THEN <<>> ELSE << <<n, b>> >>

\* concatenation, keeping the canonical form at the seam
BCat(s, t) ==
    IF s = <<>> THEN t
    ELSE IF t = <<>> THEN s
    ELSE IF s[Len(s)][2] = t[1][2]
         THEN SubSeq(s, 1, Len(s) - 1)
              \o << <<s[Len(s)][1] + t[1][1], t[1][2]>> >>
              \o Tail(t)
         ELSE s \o t

\* the first n bytes of s (all of s when it is shorter)
RECURSIVE BTake(_, _)
BTake(s, n) ==
    IF n <= 0 \/ s = <<>> THEN <<>>
    ELSE IF Head(s)[1] >= n THEN << <<n, Head(s)[2]>> >>
    ELSE <<Head(s)>> \o BTake(Tail(s), n - Head(s)[1])

\* s without its first n bytes
RECURSIVE BDrop(_, _)
BDrop(s, n) ==
    IF n <= 0 \/ s = <<>> THEN s
    ELSE IF Head(s)[1] > n THEN << <<Head(s)[1] - n, Head(s)[2]>> >> \o Tail(s)
    ELSE BDrop(Tail(s), n - Head(s)[1])

\* the byte at 0-based position i of s, i < BLen(s)
RECURSIVE BAt(_, _)
BAt(s, i) == IF i < Head(s)[1] THEN Head(s)[2] ELSE BAt(Tail(s), i - Head(s)[1])

\* the byte string of an explicit sequence of bytes
RECURSIVE BStr(_)
BStr(q) == IF q = <<>> THEN <<>> ELSE BCat(BFill(1, Head(q)), BStr(Tail(q)))

\* the explicit sequence of the bytes of a (short) byte string
BSeq(s) == [i \in 1..BLen(s) |-> BAt(s, i - 1)]

(***************************************************************************)
(* State                                                                   *)
(***************************************************************************)
VARIABLES
    src,            \* content of the file named by command->input_file
    patch,          \* content of the file named by command->ips_file
    prior,          \* content of the file named by command->output_file
                    \* before the run
    author,         \* what the author of the patch file meant by it
    fault,          \* the one stdio call of this run that fails, if any
    pc,             \* where execute_patch stands
    input_file,     \* execute_patch's FILE* input_file and its stream
    output_file,    \* execute_patch's FILE* output_file and its stream
    patch_file,     \* execute_patch's FILE* patch_file and its stream
    patch_type,     \* execute_patch's local patch_type
    patch_ctx,      \* execute_patch's local patch_ctx (BPS only)
    local_status,   \* execute_patch's local_status
    status,         \* the shared record *status, written under its lock
    ret,            \* the value execute_patch returned
    trace,          \* history: the calls made so far, for the properties
    threads,        \* the worker threads created, and those not scheduled
    observer        \* the caller of the worker: ui_loop or execute_command_line

vars == <<src, patch, prior, author, fault, pc, input_file, output_file, patch_file,
          patch_type, patch_ctx, local_status, status, ret, trace, threads,
          observer>>

(***************************************************************************)
(* Enumerations of patch.h.  ips_next tests "rc < 0" on an iterator        *)
(* status, so the statuses keep integer values.                            *)
(***************************************************************************)
HUNK_NONE == 0
HUNK_NEXT == 1
HUNK_DONE == 2
HUNK_ERR_IO == -1

PATCH_OK == "PATCH_OK"
PATCH_ERR_IO == "PATCH_ERR_IO"
PATCH_UNKNOWN_TYPE == "PATCH_UNKNOWN_TYPE"
PATCH_FAILED_TO_START == "PATCH_FAILED_TO_START"
PATCH_INVALID_OUTPUT_SIZE == "PATCH_INVALID_OUTPUT_SIZE"
PATCH_INVALID_OUTPUT_CHECKSUM == "PATCH_INVALID_OUTPUT_CHECKSUM"
PATCH_INVALID_HEADER == "PATCH_INVALID_HEADER"

PATCH_TYPE_UNKNOWN == "PATCH_TYPE_UNKNOWN"
PATCH_TYPE_IPS == "PATCH_TYPE_IPS"
PATCH_TYPE_BPS == "PATCH_TYPE_BPS"

(***************************************************************************)
(* stdio.  A stream is a record: name (which file), h (the state of the    *)
(* FILE* that names it: "uninit", "null", "open", "closed"), data, pos,    *)
(* the end-of-file and error indicators, and the number of fread, fwrite   *)
(* and fseek calls made on it.  The run's fault names a call (function,    *)
(* file, index among the calls of that function on that file) that fails;  *)
(* a failed call stays failed.                                             *)
(***************************************************************************)
NoFault == [fn |-> "none", file |-> "none", at |-> 0]

Fails(fn, st, n) == fault.fn = fn /\ fault.file = st.name /\ n >= fault.at

Stream(name) ==
    [name |-> name, h |-> "uninit", data |-> <<>>, pos |-> 0,
     eof |-> FALSE, err |-> FALSE, nrd |-> 0, nwr |-> 0, nsk |-> 0]

\* fopen(path, mode): NULL on failure; mode "w+" truncates
fopen(st, content, truncate) ==
    IF Fails("fopen", st, 0)
    THEN [st EXCEPT !.h = "null"]
    ELSE [st EXCEPT !.h = "open", !.data = IF truncate THEN <<>> ELSE content]

\* fread(buf, 1, n, st): the bytes read and the stream after the call
fread(st, n) ==
    IF Fails("fread", st, st.nrd)
    THEN [st |-> [st EXCEPT !.err = TRUE, !.nrd = @ + 1], buf |-> <<>>, nread |-> 0]
    ELSE LET avail == IF st.pos < BLen(st.data) THEN BLen(st.data) - st.pos ELSE 0
             k == Min(n, avail)
         IN  [st |-> [st EXCEPT !.pos = @ + k, !.eof = @ \/ k < n, !.nrd = @ + 1],
              buf |-> BTake(BDrop(st.data, st.pos), k),
              nread |-> k]

\* fwrite(buf, 1, BLen(buf), st): the count written and the stream after the
\* call.  Writing past the end of the file leaves a hole, which reads as
\* zero bytes.
fwrite(st, buf) ==
    IF Fails("fwrite", st, st.nwr)
    THEN [st |-> [st EXCEPT !.err = TRUE, !.nwr = @ + 1], nwritten |-> 0]
    ELSE IF buf = <<>>
    THEN [st |-> [st EXCEPT !.nwr = @ + 1], nwritten |-> 0]
    ELSE LET n == BLen(buf)
             len == BLen(st.data)
             before == IF st.pos <= len THEN BTake(st.data, st.pos)
                       ELSE BCat(st.data, BFill(st.pos - len, 0))
             after == BDrop(st.data, st.pos + n)
         IN  [st |-> [st EXCEPT !.data = BCat(BCat(before, buf), after),
                                !.pos = @ + n, !.nwr = @ + 1],
              nwritten |-> n]

\* fseek(st, off, SEEK_SET): -1 on failure
fseek(st, off) ==
    IF Fails("fseek", st, st.nsk)
    THEN [st |-> [st EXCEPT !.nsk = @ + 1], rc |-> -1]
    ELSE [st |-> [st EXCEPT !.pos = off, !.eof = FALSE, !.nsk = @ + 1], rc |-> 0]

ferror(st) == IF st.err THEN 1 ELSE 0
feof(st) == IF st.eof THEN 1 ELSE 0

\* fstat(fileno(st)).st_size, or -1 when fstat fails
fstat_size(st) == IF Fails("fstat", st, 0) THEN -1 ELSE BLen(st.data)

(***************************************************************************)
(* Bit operations on naturals, as C's &, | and <<                          *)
(***************************************************************************)
RECURSIVE BitAnd(_, _)
BitAnd(a, b) ==
    IF a = 0 \/ b = 0 THEN 0
    ELSE (a % 2) * (b % 2) + 2 * BitAnd(a \div 2, b \div 2)

RECURSIVE BitOr(_, _)
BitOr(a, b) ==
    IF a = 0 THEN b
    ELSE IF b = 0 THEN a
    ELSE (IF a % 2 = 1 \/ b % 2 = 1 THEN 1 ELSE 0) + 2 * BitOr(a \div 2, b \div 2)

RECURSIVE Shl(_, _)
Shl(a, k) == IF k = 0 THEN a ELSE Shl(2 * a, k - 1)

(***************************************************************************)
(* ips.c.  Where a function goes on with the result of a call, the rest of *)
(* the function is an operator of its own that takes the result.           *)
(***************************************************************************)
BUF_SIZE == 32768

RECURSIVE copy_file_loop(_, _, _, _)

\* lines 45-49: the chunk went to fwrite
copy_file_written(r, w, total_read, input_file_size) ==
    IF w.nwritten < r.nread
    THEN [rc |-> -1, inp |-> r.st, out |-> w.st]
    ELSE copy_file_loop(r.st, w.st, total_read, input_file_size)

\* lines 36-45: the chunk came from fread; a short chunk ends the loop
copy_file_read(r, out, total_read, input_file_size) ==
    IF r.nread < BUF_SIZE
    THEN [rc |-> IF total_read + r.nread < input_file_size THEN -1 ELSE 0,
          inp |-> r.st, out |-> out]
    ELSE copy_file_written(r, fwrite(out, r.buf), total_read + r.nread,
                           input_file_size)

\* lines 34-35: one round of while (1)
copy_file_loop(inp, out, total_read, input_file_size) ==
    copy_file_read(fread(inp, BUF_SIZE), out, total_read, input_file_size)

\* fileno cannot fail on the open stream execute_patch passes
copy_file(inp, out) ==
    IF fstat_size(inp) = -1
    THEN [rc |-> -1, inp |-> inp, out |-> out]
    ELSE copy_file_loop(inp, out, 0, fstat_size(inp))

ips_start_copied(c) ==
    [err |-> IF c.rc # 0 THEN PATCH_ERR_IO ELSE PATCH_OK, inp |-> c.inp, out |-> c.out]

ips_start(inp, out) == ips_start_copied(copy_file(inp, out))

IPS_EXPECTED_MARKER == <<80, 65, 84, 67, 72>>
IPS_MARKER_SIZE == Len(IPS_EXPECTED_MARKER)

HUNK_PREAMBLE_BYTE_SIZE == 5

\* buf is the C array, indexed from 1 here
\* the bytes taken in the opposite order
be_24bit_int_swapped(buf) ==
    BitOr(BitOr(BitAnd(Shl(buf[3], 16), 16711680),
                BitAnd(Shl(buf[2], 8), 65280)),
          BitAnd(buf[1], 255))

be_24bit_int(buf) ==
    BitOr(BitOr(BitAnd(Shl(buf[1], 16), 16711680),
                BitAnd(Shl(buf[2], 8), 65280)),
          BitAnd(buf[3], 255))

be_16bit_int(buf) ==
    BitOr(BitAnd(Shl(buf[1], 8), 65280), BitAnd(buf[2], 255)) % 65536

RLE_PAYLOAD_BYTE_SIZE == 3

\* lines 94-109
ips_get_rle_payload_read(r) ==
    IF r.nread < RLE_PAYLOAD_BYTE_SIZE /\ (ferror(r.st) # 0 \/ feof(r.st) # 0)
    THEN [rc |-> -1, ips |-> r.st, rle_length |-> 0, rle_value |-> 0]
    ELSE [rc |-> 0, ips |-> r.st,
          rle_length |-> be_16bit_int(BSeq(r.buf)), rle_value |-> BAt(r.buf, 2)]

ips_get_rle_payload(ips) == ips_get_rle_payload_read(fread(ips, RLE_PAYLOAD_BYTE_SIZE))

\* a preamble that stops after 1 to 4 bytes taken for an error
ips_next_hunk_header_read_strict(r) ==
    IF r.nread < HUNK_PREAMBLE_BYTE_SIZE /\ (ferror(r.st) # 0 \/ r.nread > 0)
    THEN [rc |-> HUNK_ERR_IO, ips |-> r.st, header |-> [offset |-> 0, length |-> 0]]
    ELSE IF r.nread < HUNK_PREAMBLE_BYTE_SIZE /\ feof(r.st) # 0
    THEN [rc |-> HUNK_DONE, ips |-> r.st, header |-> [offset |-> 0, length |-> 0]]
    ELSE [rc |-> HUNK_NEXT, ips |-> r.st,
          header |-> [offset |-> be_24bit_int(BSeq(r.buf)),
                      length |-> be_16bit_int(SubSeq(BSeq(r.buf), 4, 5))]]

\* lines 121-136
ips_next_hunk_header_read(r) ==
    IF r.nread < HUNK_PREAMBLE_BYTE_SIZE /\ ferror(r.st) # 0
    THEN [rc |-> HUNK_ERR_IO, ips |-> r.st, header |-> [offset |-> 0, length |-> 0]]
    ELSE IF r.nread < HUNK_PREAMBLE_BYTE_SIZE /\ feof(r.st) # 0
    THEN [rc |-> HUNK_DONE, ips |-> r.st, header |-> [offset |-> 0, length |-> 0]]
    ELSE [rc |-> HUNK_NEXT, ips |-> r.st,
          header |-> [offset |-> be_24bit_int(BSeq(r.buf)),
                      length |-> be_16bit_int(SubSeq(BSeq(r.buf), 4, 5))]]

ips_next_hunk_header(ips) ==
    ips_next_hunk_header_read(fread(ips, HUNK_PREAMBLE_BYTE_SIZE))

\* ips_write_rle_hunk's for loop from i up to n: one fwrite of one byte per
\* round, stopping at the first that writes nothing.  The rounds i..n-1 are
\* the rounds i..m-1 followed by the rounds m..n-1.
RECURSIVE ips_write_rle_loop(_, _, _, _)

\* lines 147-152: one round
ips_write_rle_written(w) == [rc |-> IF w.nwritten = 0 THEN -1 ELSE 0, out |-> w.st]

ips_write_rle_rest(first, m, n, rle_value) ==
    IF first.rc < 0 THEN first ELSE ips_write_rle_loop(first.out, m, n, rle_value)

ips_write_rle_loop(out, i, n, rle_value) ==
    IF i >= n THEN [rc |-> 0, out |-> out]
    ELSE IF n - i = 1 THEN ips_write_rle_written(fwrite(out, BFill(1, rle_value)))
    ELSE ips_write_rle_rest(
             ips_write_rle_loop(out, i, i + ((n - i) \div 2), rle_value),
             i + ((n - i) \div 2), n, rle_value)

\* the loop started at 1
ips_write_rle_hunk_from_one(out, rle_hunk_length, rle_value) ==
    ips_write_rle_loop(out, 1, rle_hunk_length, rle_value)

ips_write_rle_hunk(out, rle_hunk_length, rle_value) ==
    ips_write_rle_loop(out, 0, rle_hunk_length, rle_value)

RECURSIVE ips_write_hunk_loop(_, _, _)

\* lines 182-187
ips_write_hunk_written(r, w, length_remaining) ==
    IF w.nwritten < r.nread
    THEN [rc |-> -1, ips |-> r.st, out |-> w.st]
    ELSE ips_write_hunk_loop(r.st, w.st, length_remaining - w.nwritten)

\* lines 170-182
ips_write_hunk_read(r, out, amount_to_copy, length_remaining) ==
    IF r.nread < amount_to_copy /\ (ferror(r.st) # 0 \/ feof(r.st) # 0)
    THEN [rc |-> -1, ips |-> r.st, out |-> out]
    ELSE ips_write_hunk_written(r, fwrite(out, r.buf), length_remaining)

\* lines 167-170: one round of while (length_remaining > 0)
ips_write_hunk_loop(ips, out, length_remaining) ==
    IF length_remaining <= 0 THEN [rc |-> 0, ips |-> ips, out |-> out]
    ELSE ips_write_hunk_read(fread(ips, Min(BUF_SIZE, length_remaining)), out,
                             Min(BUF_SIZE, length_remaining), length_remaining)

\* the copy of one chunk only, an if where the while is
ips_write_hunk_one_chunk_written(r, w) ==
    [rc |-> IF w.nwritten < r.nread THEN -1 ELSE 0, ips |-> r.st, out |-> w.st]

ips_write_hunk_one_chunk_read(r, out, amount_to_copy) ==
    IF r.nread < amount_to_copy /\ (ferror(r.st) # 0 \/ feof(r.st) # 0)
    THEN [rc |-> -1, ips |-> r.st, out |-> out]
    ELSE ips_write_hunk_one_chunk_written(r, fwrite(out, r.buf))

ips_write_hunk_one_chunk(ips, out, hunk_length) ==
    ips_write_hunk_one_chunk_read(fread(ips, Min(BUF_SIZE, hunk_length)), out,
                                  Min(BUF_SIZE, hunk_length))

ips_write_hunk(ips, out, hunk_length) == ips_write_hunk_loop(ips, out, hunk_length)

\* In the results of ips_patch_hunk and ips_next, at is the output position
\* after the seek, where the body is written.

\* lines 226-234
ips_patch_hunk_raw(s, w) == [rc |-> w.rc, out |-> w.out, ips |-> w.ips, at |-> s.st.pos]

\* lines 219-224
ips_patch_hunk_rle_written(s, p, w) ==
    [rc |-> w.rc, out |-> w.out, ips |-> p.ips, at |-> s.st.pos]

\* lines 214-219
ips_patch_hunk_rle(s, p) ==
    IF p.rc < 0
    THEN [rc |-> p.rc, out |-> s.st, ips |-> p.ips, at |-> s.st.pos]
    ELSE ips_patch_hunk_rle_written(
             s, p, ips_write_rle_hunk(s.st, p.rle_length, p.rle_value))

\* lines 196-226
ips_patch_hunk_seeked(hunk_header, s, ips) ==
    IF s.rc = -1 THEN [rc |-> s.rc, out |-> s.st, ips |-> ips, at |-> -1]
    ELSE IF hunk_header.length = 0
    THEN ips_patch_hunk_rle(s, ips_get_rle_payload(ips))
    ELSE ips_patch_hunk_raw(s, ips_write_hunk(ips, s.st, hunk_header.length))

\* the fseek left out
ips_patch_hunk_unseeked(hunk_header, out, ips) ==
    ips_patch_hunk_seeked(hunk_header, [st |-> out, rc |-> 0], ips)

ips_patch_hunk(hunk_header, out, ips) ==
    ips_patch_hunk_seeked(hunk_header, fseek(out, hunk_header.offset), ips)

\* lines 249-254
\* the result of ips_patch_hunk ignored
ips_next_patched_ignoring(h, p) ==
    [rc |-> HUNK_NEXT, out |-> p.out, ips |-> p.ips, header |-> h.header, at |-> p.at]

\* a payload that ends early taken for the end of the patch
ips_next_patched_eof_done(h, p) ==
    [rc |-> IF p.rc < 0
            THEN (IF feof(p.ips) # 0 THEN HUNK_DONE ELSE HUNK_ERR_IO)
            ELSE HUNK_NEXT,
     out |-> p.out, ips |-> p.ips, header |-> h.header, at |-> p.at]

ips_next_patched(h, p) ==
    [rc |-> IF p.rc < 0 THEN HUNK_ERR_IO ELSE HUNK_NEXT,
     out |-> p.out, ips |-> p.ips, header |-> h.header, at |-> p.at]

\* lines 241-248
ips_next_header(h, out) ==
    IF h.rc < 0
    THEN [rc |-> HUNK_ERR_IO, out |-> out, ips |-> h.ips, header |-> h.header, at |-> -1]
    ELSE IF h.rc = HUNK_DONE
    THEN [rc |-> HUNK_DONE, out |-> out, ips |-> h.ips, header |-> h.header, at |-> -1]
    ELSE ips_next_patched(h, ips_patch_hunk(h.header, out, h.ips))

\* the iterator status, the streams after the call and, for the history,
\* the header decoded and the position the body was written at
ips_next(inp, out, ips) == ips_next_header(ips_next_hunk_header(ips), out)

(***************************************************************************)
(* patch.c: the marker check and the progress record                       *)
(***************************************************************************)
patch_verify_marker_read(r, expected_marker, marker_length) ==
    [rc |-> IF r.nread = marker_length /\ BSeq(r.buf) = expected_marker
            THEN PATCH_OK ELSE PATCH_INVALID_HEADER,
     pf |-> r.st]

patch_verify_marker(pf, expected_marker, marker_length) ==
    patch_verify_marker_read(fread(pf, marker_length), expected_marker, marker_length)

ips_verify_marker(ips) == patch_verify_marker(ips, IPS_EXPECTED_MARKER, IPS_MARKER_SIZE)

\* patch_status_init, patch_status_reset
patch_status_init ==
    [hunk_count |-> 0, iter_status |-> HUNK_NONE, err |-> PATCH_OK, is_done |-> 0]

\* patch_status_copy(dst, src): every field
patch_status_copy(from) ==
    [hunk_count |-> from.hunk_count, iter_status |-> from.iter_status,
     err |-> from.err, is_done |-> from.is_done]

(***************************************************************************)
(* bps.c, after the format's description: the marker, the header, the      *)
(* action loop with its four opcodes and two cursors, and the trailer's    *)
(* checks.                                                                 *)
(***************************************************************************)
RECURSIVE BitXor(_, _)
BitXor(a, b) ==
    IF a = 0 THEN b
    ELSE IF b = 0 THEN a
    ELSE ((a + b) % 2) + 2 * BitXor(a \div 2, b \div 2)

\* A 32-bit word is the pair <<high 16 bits, low 16 bits>>.
W32Xor(x, y) == <<BitXor(x[1], y[1]), BitXor(x[2], y[2])>>
W32Shr1(x) == <<x[1] \div 2, (x[2] \div 2) + 32768 * (x[1] % 2)>>
W32Shr8(x) == <<x[1] \div 256, (x[2] \div 256) + 256 * (x[1] % 256)>>

\* 0xEDB88320 and 0xFFFFFFFF
CRC32_POLY == <<60856, 33568>>
CRC32_MASK == <<65535, 65535>>

\* one message bit: shift right, folding the polynomial in on a carry
crc32_bit(c) == IF c[2] % 2 = 1 THEN W32Xor(W32Shr1(c), CRC32_POLY) ELSE W32Shr1(c)

RECURSIVE crc32_bits(_, _)
crc32_bits(c, k) == IF k = 0 THEN c ELSE crc32_bit(crc32_bits(c, k - 1))

\* the table of the 256 byte values, and the table-driven step
crc32_table == [n \in 0..255 |-> crc32_bits(<<0, n>>, 8)]

crc32_byte(c, b) == W32Xor(crc32_table[BitXor(c[2] % 256, b)], W32Shr8(c))

\* update(state, bytes), the bytes given as an explicit sequence
RECURSIVE crc32_update(_, _)
crc32_update(c, q) ==
    IF q = <<>> THEN c
    ELSE crc32_byte(crc32_update(c, SubSeq(q, 1, Len(q) - 1)), q[Len(q)])

crc32_new == CRC32_MASK
crc32_finalize(c) == W32Xor(c, CRC32_MASK)
crc32(q) == crc32_finalize(crc32_update(crc32_new, q))

BPS_EXPECTED_MARKER == <<66, 80, 83, 49>>
BPS_MARKER_SIZE == Len(BPS_EXPECTED_MARKER)

bps_verify_marker(bps) == patch_verify_marker(bps, BPS_EXPECTED_MARKER, BPS_MARKER_SIZE)


\* the unsigned varint at the stream's position: 7 data bits per byte, the
\* high bit set on the last byte, each further group weighted by 128 with
\* the weight itself added (the patches explored keep every varint small,
\* so the 64-bit overflow check is never met)
RECURSIVE bps_read_varint_from(_, _, _)

bps_read_varint_byte(r, data, shift) ==
    IF r.nread < 1 THEN [ok |-> FALSE, value |-> 0, pf |-> r.st]
    ELSE IF BAt(r.buf, 0) >= 128
    THEN [ok |-> TRUE, value |-> data + (BAt(r.buf, 0) % 128) * shift, pf |-> r.st]
    ELSE bps_read_varint_from(
             r.st, data + (BAt(r.buf, 0) % 128) * shift + shift * 128, shift * 128)

bps_read_varint_from(bps, data, shift) == bps_read_varint_byte(fread(bps, 1), data, shift)

bps_read_varint(bps) == bps_read_varint_from(bps, 0, 1)

\* the signed varint: the low bit is the sign
bps_signed_varint(r) ==
    [ok |-> r.ok, pf |-> r.pf,
     value |-> IF r.value % 2 = 1 THEN 0 - (r.value \div 2) ELSE r.value \div 2]

bps_read_signed_varint(bps) == bps_signed_varint(bps_read_varint(bps))

bps_ctx_none ==
    [source_size |-> 0, target_size |-> 0, metadata_length |-> 0, out_pos |-> 0,
     source_cursor |-> 0, target_cursor |-> 0,
     source_crc |-> crc32_new, target_crc |-> crc32_new]

\* bps_start: the three header varints, then the metadata is skipped
bps_start_metadata(a, b, c, m, ctx) ==
    IF m.nread < c.value THEN [err |-> PATCH_ERR_IO, ctx |-> ctx, pf |-> m.st]
    ELSE [err |-> PATCH_OK, pf |-> m.st,
          ctx |-> [bps_ctx_none EXCEPT !.source_size = a.value,
                                       !.target_size = b.value,
                                       !.metadata_length = c.value]]

bps_start_metadata_length(a, b, c, ctx) ==
    IF ~c.ok THEN [err |-> PATCH_ERR_IO, ctx |-> ctx, pf |-> c.pf]
    ELSE bps_start_metadata(a, b, c, fread(c.pf, c.value), ctx)

bps_start_target_size(a, b, ctx) ==
    IF ~b.ok THEN [err |-> PATCH_ERR_IO, ctx |-> ctx, pf |-> b.pf]
    ELSE bps_start_metadata_length(a, b, bps_read_varint(b.pf), ctx)

bps_start_source_size(a, ctx) ==
    IF ~a.ok THEN [err |-> PATCH_ERR_IO, ctx |-> ctx, pf |-> a.pf]
    ELSE bps_start_target_size(a, bps_read_varint(a.pf), ctx)

bps_start(bps, ctx) == bps_start_source_size(bps_read_varint(bps), ctx)

\* length bytes of the source from position at, appended to the target
bps_copy_source_written(ctx, r, w, length) ==
    IF w.nwritten < length THEN [ok |-> FALSE, ctx |-> ctx, inp |-> r.st, out |-> w.st]
    ELSE [ok |-> TRUE, inp |-> r.st, out |-> w.st,
          ctx |-> [ctx EXCEPT !.out_pos = @ + length,
                              !.source_crc = crc32_update(@, BSeq(r.buf)),
                              !.target_crc = crc32_update(@, BSeq(r.buf))]]

bps_copy_source_read(ctx, r, out, length) ==
    IF r.nread < length THEN [ok |-> FALSE, ctx |-> ctx, inp |-> r.st, out |-> out]
    ELSE bps_copy_source_written(ctx, r, fwrite(out, r.buf), length)

bps_copy_source_seeked(ctx, s, out, length) ==
    IF s.rc = -1 THEN [ok |-> FALSE, ctx |-> ctx, inp |-> s.st, out |-> out]
    ELSE bps_copy_source_read(ctx, fread(s.st, length), out, length)

bps_copy_source(ctx, inp, out, at, length) ==
    IF at < 0 THEN [ok |-> FALSE, ctx |-> ctx, inp |-> inp, out |-> out]
    ELSE bps_copy_source_seeked(ctx, fseek(inp, at), out, length)

\* TargetCopy, one byte at a time: the byte at target_cursor of the target
\* as written so far is appended to the target
RECURSIVE bps_target_copy(_, _, _)

bps_target_copy_written(ctx, b, w, length) ==
    IF w.nwritten < 1 THEN [ok |-> FALSE, ctx |-> ctx, out |-> w.st]
    ELSE bps_target_copy(
             [ctx EXCEPT !.target_cursor = @ + 1, !.out_pos = @ + 1,
                         !.target_crc = crc32_byte(@, b)],
             w.st, length - 1)

bps_target_copy_byte(ctx, b, out, length) ==
    bps_target_copy_written(ctx, b, fwrite(out, BFill(1, b)), length)

\* TargetCopy from a window of length bytes read before anything is
\* written; what lies behind the end of the target reads as zero
bps_target_copy_prebuffered_written(ctx, buf, w, length) ==
    IF w.nwritten < length THEN [ok |-> FALSE, ctx |-> ctx, out |-> w.st]
    ELSE [ok |-> TRUE, out |-> w.st,
          ctx |-> [ctx EXCEPT !.target_cursor = @ + length, !.out_pos = @ + length,
                              !.target_crc = crc32_update(@, BSeq(buf))]]

bps_target_copy_prebuffered_window(ctx, out, buf, length) ==
    bps_target_copy_prebuffered_written(
        ctx, BCat(buf, BFill(length - BLen(buf), 0)),
        fwrite(out, BCat(buf, BFill(length - BLen(buf), 0))), length)

bps_target_copy_prebuffered(ctx, out, length) ==
    IF ctx.target_cursor < 0 \/ ctx.target_cursor >= BLen(out.data)
    THEN [ok |-> FALSE, ctx |-> ctx, out |-> out]
    ELSE bps_target_copy_prebuffered_window(
             ctx, out, BTake(BDrop(out.data, ctx.target_cursor), length), length)

bps_target_copy(ctx, out, length) ==
    IF length = 0 THEN [ok |-> TRUE, ctx |-> ctx, out |-> out]
    ELSE IF ctx.target_cursor < 0 \/ ctx.target_cursor >= BLen(out.data)
    THEN [ok |-> FALSE, ctx |-> ctx, out |-> out]
    ELSE bps_target_copy_byte(ctx, BAt(out.data, ctx.target_cursor), out, length)

bps_next_fail(ctx, inp, out, pf) ==
    [rc |-> HUNK_ERR_IO, ctx |-> ctx, inp |-> inp, out |-> out, pf |-> pf]

\* SourceRead: from the source at the output position
bps_source_read(ctx, c, pf) ==
    IF ~c.ok THEN bps_next_fail(ctx, c.inp, c.out, pf)
    ELSE [rc |-> HUNK_NEXT, ctx |-> c.ctx, inp |-> c.inp, out |-> c.out, pf |-> pf]

\* TargetRead: literal bytes of the patch
bps_target_read_written(ctx, inp, r, w, length) ==
    IF w.nwritten < length THEN bps_next_fail(ctx, inp, w.st, r.st)
    ELSE [rc |-> HUNK_NEXT, inp |-> inp, out |-> w.st, pf |-> r.st,
          ctx |-> [ctx EXCEPT !.out_pos = @ + length,
                              !.target_crc = crc32_update(@, BSeq(r.buf))]]

bps_target_read(ctx, inp, out, r, length) ==
    IF r.nread < length THEN bps_next_fail(ctx, inp, out, r.st)
    ELSE bps_target_read_written(ctx, inp, r, fwrite(out, r.buf), length)

\* SourceCopy: the source cursor moves by the signed delta, then past the copy
bps_source_copy_copied(ctx, c, pf, at, length) ==
    IF ~c.ok THEN bps_next_fail(ctx, c.inp, c.out, pf)
    ELSE [rc |-> HUNK_NEXT, inp |-> c.inp, out |-> c.out, pf |-> pf,
          ctx |-> [c.ctx EXCEPT !.source_cursor = at + length]]

bps_source_copy(ctx, inp, out, d, length) ==
    IF ~d.ok THEN bps_next_fail(ctx, inp, out, d.pf)
    ELSE bps_source_copy_copied(
             ctx, bps_copy_source(ctx, inp, out, ctx.source_cursor + d.value, length),
             d.pf, ctx.source_cursor + d.value, length)

\* TargetCopy: the target cursor moves by the signed delta
bps_target_copy_copied(ctx, inp, c, pf) ==
    IF ~c.ok THEN bps_next_fail(ctx, inp, c.out, pf)
    ELSE [rc |-> HUNK_NEXT, ctx |-> c.ctx, inp |-> inp, out |-> c.out, pf |-> pf]

bps_target_copy_action(ctx, inp, out, d, length) ==
    IF ~d.ok THEN bps_next_fail(ctx, inp, out, d.pf)
    ELSE bps_target_copy_copied(
             ctx, inp,
             bps_target_copy([ctx EXCEPT !.target_cursor = @ + d.value], out, length),
             d.pf)

\* the action word: opcode in the low two bits, length - 1 above them
bps_next_action(ctx, inp, out, v, opcode, length) ==
    IF ~v.ok THEN bps_next_fail(ctx, inp, out, v.pf)
    ELSE CASE opcode = 0 ->
                  bps_source_read(
                      ctx, bps_copy_source(ctx, inp, out, ctx.out_pos, length), v.pf)
           [] opcode = 1 -> bps_target_read(ctx, inp, out, fread(v.pf, length), length)
           [] opcode = 2 ->
                  bps_source_copy(ctx, inp, out, bps_read_signed_varint(v.pf), length)
           [] OTHER ->
                  bps_target_copy_action(
                      ctx, inp, out, bps_read_signed_varint(v.pf), length)

bps_next_word(ctx, inp, out, v) ==
    bps_next_action(ctx, inp, out, v, v.value % 4, (v.value \div 4) + 1)

\* bps_next: Done once the target is complete, else one action
bps_next(ctx, inp, out, bps) ==
    IF ctx.out_pos = ctx.target_size
    THEN [rc |-> HUNK_DONE, ctx |-> ctx, inp |-> inp, out |-> out, pf |-> bps]
    ELSE bps_next_word(ctx, inp, out, bps_read_varint(bps))

u32_le(q) == <<q[3] + 256 * q[4], q[1] + 256 * q[2]>>

BPS_TRAILER_SIZE == 12

\* the first failing check is reported
bps_end_trailer(ctx, r, t, patch_crc) ==
    IF r.nread < BPS_TRAILER_SIZE THEN [err |-> PATCH_ERR_IO, pf |-> r.st]
    ELSE IF ctx.target_size # ctx.out_pos
    THEN [err |-> PATCH_INVALID_OUTPUT_SIZE, pf |-> r.st]
    ELSE IF crc32_finalize(ctx.source_crc) # u32_le(SubSeq(t, 1, 4))
    THEN [err |-> PATCH_INVALID_OUTPUT_CHECKSUM, pf |-> r.st]
    ELSE IF crc32_finalize(ctx.target_crc) # u32_le(SubSeq(t, 5, 8))
    THEN [err |-> PATCH_INVALID_OUTPUT_CHECKSUM, pf |-> r.st]
    ELSE IF patch_crc # u32_le(SubSeq(t, 9, 12))
    THEN [err |-> PATCH_INVALID_OUTPUT_CHECKSUM, pf |-> r.st]
    ELSE [err |-> PATCH_OK, pf |-> r.st]

bps_end_read(ctx, r, patch_crc) == bps_end_trailer(ctx, r, BSeq(r.buf), patch_crc)

\* bps_end: the patch CRC covers what precedes the trailer
bps_end(ctx, bps) ==
    bps_end_read(ctx, fread(bps, BPS_TRAILER_SIZE), crc32(BSeq(BTake(bps.data, bps.pos))))

(***************************************************************************)
(* main.c: the patch controller                                            *)
(***************************************************************************)

\* fclose of one handle left out
fclose_skipped(st) == st

\* fclose of one handle by close_files: a NULL handle is skipped
fclose_if_not_null(st) == IF st.h = "open" THEN [st EXCEPT !.h = "closed"] ELSE st

\* close_files is handed a dangling or an uninitialised FILE*
close_is_undefined(inp, out, pf) ==
    \E st \in {inp, out, pf} : st.h \in {"closed", "uninit"}

\* lines 49-55: the BPS marker after the rewind
detect_patch_type_bps(b) ==
    [type |-> IF b.rc = PATCH_OK THEN PATCH_TYPE_BPS ELSE PATCH_TYPE_UNKNOWN,
     pf |-> b.pf, tried |-> <<"ips", "bps">>]

\* lines 42-48: the rewind
detect_patch_type_rewound(s) ==
    IF s.rc = -1
    THEN [type |-> PATCH_TYPE_UNKNOWN, pf |-> s.st, tried |-> <<"ips">>]
    ELSE detect_patch_type_bps(bps_verify_marker(s.st))

\* lines 36-41: the IPS marker
\* the rewind left out
detect_patch_type_ips_no_rewind(i) ==
    IF i.rc = PATCH_OK
    THEN [type |-> PATCH_TYPE_IPS, pf |-> i.pf, tried |-> <<"ips">>]
    ELSE detect_patch_type_bps(bps_verify_marker(i.pf))

detect_patch_type_ips(i) ==
    IF i.rc = PATCH_OK
    THEN [type |-> PATCH_TYPE_IPS, pf |-> i.pf, tried |-> <<"ips">>]
    ELSE detect_patch_type_rewound(fseek(i.pf, 0))

detect_patch_type(pf) == detect_patch_type_ips(ips_verify_marker(pf))

start_patch_ips(r, ctx, pf) ==
    [rc |-> IF r.err # PATCH_OK THEN -1 ELSE 0,
     ctx |-> ctx, inp |-> r.inp, pf |-> pf, out |-> r.out]

start_patch_bps(r, inp, out) ==
    [rc |-> IF r.err # PATCH_OK THEN -1 ELSE 0,
     ctx |-> r.ctx, inp |-> inp, pf |-> r.pf, out |-> out]

start_patch(type, ctx, inp, pf, out) ==
    CASE type = PATCH_TYPE_IPS -> start_patch_ips(ips_start(inp, out), ctx, pf)
      [] type = PATCH_TYPE_BPS -> start_patch_bps(bps_start(pf, ctx), inp, out)
      [] OTHER -> [rc |-> -1, ctx |-> ctx, inp |-> inp, pf |-> pf, out |-> out]

\* the case PATCH_TYPE_BPS left out of the switch
end_patch_default(type, ctx, pf) == [err |-> PATCH_OK, pf |-> pf]

end_patch(type, ctx, pf) ==
    IF type = PATCH_TYPE_BPS THEN bps_end(ctx, pf)
    ELSE [err |-> PATCH_OK, pf |-> pf]

next_hunk_ips(r, ctx, inp) ==
    [rc |-> r.rc, ctx |-> ctx, inp |-> inp, out |-> r.out, pf |-> r.ips,
     header |-> r.header, at |-> r.at]

next_hunk_bps(r) ==
    [rc |-> r.rc, ctx |-> r.ctx, inp |-> r.inp, out |-> r.out, pf |-> r.pf,
     header |-> [offset |-> 0, length |-> 0], at |-> -1]

next_hunk(type, ctx, inp, out, pf) ==
    CASE type = PATCH_TYPE_IPS -> next_hunk_ips(ips_next(inp, out, pf), ctx, inp)
      [] type = PATCH_TYPE_BPS -> next_hunk_bps(bps_next(ctx, inp, out, pf))
      [] OTHER -> [rc |-> HUNK_NONE, ctx |-> ctx, inp |-> inp, out |-> out, pf |-> pf,
                   header |-> [offset |-> 0, length |-> 0], at |-> -1]

\* lines 111-130 with the three fopen results
open_patch_files_opened(i, o, p, out, pf) ==
    IF i.h = "null"
    THEN [err |-> PATCH_ERR_IO, inp |-> i, out |-> out, pf |-> pf]
    ELSE IF o.h = "null"
    THEN [err |-> PATCH_ERR_IO, inp |-> fclose_if_not_null(i), out |-> o, pf |-> pf]
    ELSE IF p.h = "null"
    THEN [err |-> PATCH_ERR_IO, inp |-> fclose_if_not_null(i),
          out |-> fclose_if_not_null(o), pf |-> p]
    ELSE [err |-> PATCH_OK, inp |-> i, out |-> o, pf |-> p]

\* the output opened in a mode that keeps what the file holds
open_patch_files_kept(inp, out, pf) ==
    open_patch_files_opened(fopen(inp, src, FALSE), fopen(out, prior, FALSE),
                            fopen(pf, patch, FALSE), out, pf)

open_patch_files(inp, out, pf) ==
    open_patch_files_opened(fopen(inp, src, FALSE), fopen(out, prior, TRUE),
                            fopen(pf, patch, FALSE), out, pf)

\* the copy into the shared record with is_done left as it was initialised
rombp_update_patch_status_not_done(local) ==
    [patch_status_copy(local) EXCEPT !.is_done = 0]

\* rombp_update_patch_status: lock, patch_status_copy, unlock.  The worker
\* takes the three as one step, which it can take when the mutex is free;
\* the observer's copy (rombp_read_patch_status) is made field by field.
rombp_update_patch_status(local) == patch_status_copy(local)

\* the mutex of the shared record is not held by the observer
MutexFree == ~observer.lock

(***************************************************************************)
(* execute_patch, one step per phase and per round of its while loop       *)
(***************************************************************************)
trace_none ==
    [tried |-> <<>>, start_results |-> <<>>, next_results |-> <<>>,
     end_results |-> <<>>, publications |-> 0, hunks |-> <<>>, published |-> {}]

\* lines 215-221: patch_status_init, open_patch_files
Open ==
    /\ pc = "open"
    /\ \E o \in {open_patch_files(input_file, output_file, patch_file)} :
           /\ input_file' = o.inp
           /\ output_file' = o.out
           /\ patch_file' = o.pf
           /\ IF o.err = PATCH_ERR_IO
              THEN /\ local_status' = [local_status EXCEPT !.err = o.err,
                                                           !.iter_status = HUNK_DONE]
                   /\ trace' = trace
                   /\ pc' = "done"
              ELSE /\ local_status' = [local_status EXCEPT !.err = o.err]
                   /\ trace' = trace
                   /\ pc' = "detect"
    /\ UNCHANGED <<src, patch, prior, author, fault, patch_type, patch_ctx, status,
                   ret, threads, observer>>

\* the test of the type left out
DetectUnchecked ==
    /\ pc = "detect"
    /\ \E d \in {detect_patch_type(patch_file)} :
           /\ patch_type' = d.type
           /\ patch_file' = d.pf
           /\ trace' = [trace EXCEPT !.tried = d.tried]
    /\ pc' = "start"
    /\ UNCHANGED <<src, patch, prior, author, fault, input_file, output_file, patch_ctx,
                   local_status, status, ret, threads, observer>>

\* lines 222-227: detect_patch_type
Detect ==
    /\ pc = "detect"
    /\ \E d \in {detect_patch_type(patch_file)} :
           /\ patch_type' = d.type
           /\ patch_file' = d.pf
           /\ IF d.type = PATCH_TYPE_UNKNOWN
              THEN /\ local_status' = [local_status EXCEPT !.iter_status = HUNK_DONE,
                                                           !.err = PATCH_UNKNOWN_TYPE]
                   /\ trace' = [trace EXCEPT !.tried = d.tried]
                   /\ pc' = "done"
              ELSE /\ local_status' = local_status
                   /\ trace' = [trace EXCEPT !.tried = d.tried]
                   /\ pc' = "start"
    /\ UNCHANGED <<src, patch, prior, author, fault, input_file, output_file, patch_ctx,
                   status, ret, threads, observer>>

\* the goto done left out
StartFallsThrough ==
    /\ pc = "start"
    /\ \E r \in {start_patch(patch_type, patch_ctx, input_file, patch_file, output_file)} :
           /\ patch_ctx' = r.ctx
           /\ input_file' = r.inp
           /\ patch_file' = r.pf
           /\ output_file' = r.out
           /\ trace' = [trace EXCEPT !.start_results = Append(@, r.rc)]
           /\ local_status' =
                  IF r.rc < 0
                  THEN [local_status EXCEPT !.iter_status = HUNK_NEXT,
                                            !.err = PATCH_FAILED_TO_START]
                  ELSE [local_status EXCEPT !.iter_status = HUNK_NEXT]
    /\ pc' = "loop"
    /\ UNCHANGED <<src, patch, prior, author, fault, patch_type, status, ret,
                   threads, observer>>

\* lines 228-234: start_patch
Start ==
    /\ pc = "start"
    /\ \E r \in {start_patch(patch_type, patch_ctx, input_file, patch_file, output_file)} :
           /\ patch_ctx' = r.ctx
           /\ input_file' = r.inp
           /\ patch_file' = r.pf
           /\ output_file' = r.out
           /\ IF r.rc < 0
              THEN /\ local_status' = [local_status EXCEPT !.iter_status = HUNK_DONE,
                                                           !.err = PATCH_FAILED_TO_START]
                   /\ trace' = [trace EXCEPT !.start_results = Append(@, r.rc)]
                   /\ pc' = "done"
              ELSE /\ local_status' = [local_status EXCEPT !.iter_status = HUNK_NEXT]
                   /\ trace' = [trace EXCEPT !.start_results = Append(@, r.rc)]
                   /\ pc' = "loop"
    /\ UNCHANGED <<src, patch, prior, author, fault, patch_type, status, ret,
                   threads, observer>>

\* lines 239-246, case HUNK_NEXT: the result of next_hunk is stored, counted
\* and published
\* the increment moved out of the if
loop_hunk_next_uncounted(local, rc) ==
    [local EXCEPT !.iter_status = rc, !.hunk_count = @ + 1]

\* lines 237-241 with the error recorded as soon as next_hunk reports it
loop_hunk_next_err_early(local, rc) ==
    [local EXCEPT !.iter_status = rc,
                  !.hunk_count = IF rc = HUNK_NEXT THEN @ + 1 ELSE @,
                  !.err = IF rc = HUNK_ERR_IO THEN PATCH_ERR_IO ELSE @]

\* is_done set as soon as the iteration is over
loop_hunk_next_done_early(local, rc) ==
    [local EXCEPT !.iter_status = rc,
                  !.hunk_count = IF rc = HUNK_NEXT THEN @ + 1 ELSE @,
                  !.is_done = IF rc = HUNK_NEXT THEN @ ELSE 1]

loop_hunk_next(local, rc) ==
    [local EXCEPT !.iter_status = rc,
                  !.hunk_count = IF rc = HUNK_NEXT THEN @ + 1 ELSE @]

\* lines 236-259: one round of while (1), the switch on iter_status
Loop ==
    /\ pc = "loop"
    /\ CASE local_status.iter_status = HUNK_NEXT ->
            \E r \in {next_hunk(patch_type, patch_ctx, input_file, output_file,
                                patch_file)} :
                /\ MutexFree
                /\ patch_ctx' = r.ctx
                /\ input_file' = r.inp
                /\ output_file' = r.out
                /\ patch_file' = r.pf
                /\ local_status' = loop_hunk_next(local_status, r.rc)
                /\ status' = rombp_update_patch_status(loop_hunk_next(local_status, r.rc))
                /\ trace' = [trace EXCEPT
                                !.next_results = Append(@, r.rc),
                                !.publications = @ + 1,
                                !.published =
                                    @ \cup {rombp_update_patch_status(
                                                loop_hunk_next(local_status, r.rc))},
                                !.hunks = IF r.rc = HUNK_NEXT
                                          THEN Append(@, [offset |-> r.header.offset,
                                                          length |-> r.header.length,
                                                          at |-> r.at])
                                          ELSE @]
                /\ pc' = "loop"
         [] local_status.iter_status = HUNK_DONE ->
            \E e \in {end_patch(patch_type, patch_ctx, patch_file)} :
                /\ local_status' = [local_status EXCEPT !.err = e.err]
                /\ patch_file' = e.pf
                /\ trace' = [trace EXCEPT !.end_results = Append(@, e.err)]
                /\ pc' = "done"
                /\ UNCHANGED <<patch_ctx, input_file, output_file, status>>
         [] local_status.iter_status = HUNK_ERR_IO ->
                /\ local_status' = [local_status EXCEPT !.err = PATCH_ERR_IO]
                /\ pc' = "done"
                /\ UNCHANGED <<trace, patch_ctx, input_file, output_file, patch_file,
                               status>>
         [] OTHER ->
                UNCHANGED <<pc, local_status, trace, patch_ctx, input_file,
                            output_file, patch_file, status>>
    /\ UNCHANGED <<src, patch, prior, author, fault, patch_type, ret, threads, observer>>

\* lines 261-263, the done label: is_done in the local record, then
\* close_files.  Closing a dangling or uninitialised FILE* is undefined: the
\* call may go unnoticed or end the process.
Done ==
    /\ pc = "done"
    /\ \E outcome \in IF close_is_undefined(input_file, output_file, patch_file)
                      THEN {"returns", "crashes"} ELSE {"returns"} :
           /\ local_status' = [local_status EXCEPT !.is_done = 1]
           /\ input_file' = fclose_if_not_null(input_file)
           /\ output_file' = fclose_if_not_null(output_file)
           /\ patch_file' = fclose_if_not_null(patch_file)
           /\ pc' = IF outcome = "returns" THEN "publish" ELSE "crashed"
    /\ UNCHANGED <<src, patch, prior, author, fault, patch_type, patch_ctx,
                   status, trace, ret, threads, observer>>

\* lines 264-267: the last publication, and the return of the error
Publish ==
    /\ pc = "publish"
    /\ MutexFree
    /\ status' = rombp_update_patch_status(local_status)
    /\ trace' = [trace EXCEPT
                    !.publications = @ + 1,
                    !.published = @ \cup {rombp_update_patch_status(local_status)}]
    /\ ret' = local_status.err
    /\ pc' = "returned"
    /\ UNCHANGED <<src, patch, prior, author, fault, input_file, output_file,
                   patch_file, patch_type, patch_ctx, local_status, threads,
                   observer>>

Next == Open \/ Detect \/ Start \/ Loop \/ Done \/ Publish

(***************************************************************************)
(* The runs explored: source files, patch files and faults                 *)
(***************************************************************************)
MaxHunks == 2          \* hunks per IPS patch
MaxFaultHunks == 2     \* hunks per IPS patch in the runs with a fault
MaxFaultAt == 3        \* a fault hits one of the first MaxFaultAt + 1 calls

\* An IPS hunk as the patch author means it: the five preamble bytes, the
\* body that follows them in the patch, and the bytes it puts at its offset.
RawHunk(b0, b1, b2, payload) ==
    [kind |-> "raw", pre |-> <<b0, b1, b2, BLen(payload) \div 256, BLen(payload) % 256>>,
     body |-> payload, offset |-> b0 * 65536 + b1 * 256 + b2, bytes |-> payload]

RleHunk(b0, b1, b2, nh, nl, v) ==
    [kind |-> "rle", pre |-> <<b0, b1, b2, 0, 0>>,
     body |-> BStr(<<nh, nl, v>>), offset |-> b0 * 65536 + b1 * 256 + b2,
     bytes |-> BFill(nh * 256 + nl, v)]

Hunks ==
    { RawHunk(0, 0, 2, BStr(<<171, 205>>)),
      RawHunk(0, 0, 3, BStr(<<18, 52>>)),
      RleHunk(0, 0, 1, 0, 4, 255),
      RawHunk(1, 0, 2, BStr(<<7>>)),
      RleHunk(0, 1, 0, 1, 1, 5),
      RawHunk(0, 2, 1, BCat(BFill(BUF_SIZE, 9), BStr(<<10, 11>>))) }

HunkSeqs(n) == UNION { [1..k -> Hunks] : k \in 0..n }

\* the hunks of the runs with a fault: a raw hunk, an RLE hunk that overlaps
\* it, and a raw hunk longer than BUF_SIZE
FaultHunks ==
    { RawHunk(0, 0, 2, BStr(<<171, 205>>)),
      RleHunk(0, 0, 1, 0, 4, 255),
      RawHunk(0, 2, 1, BCat(BFill(BUF_SIZE, 9), BStr(<<10, 11>>))) }

FaultHunkSeqs(n) == UNION { [1..k -> FaultHunks] : k \in 0..n }

RECURSIVE EncodeHunks(_)
EncodeHunks(hs) ==
    IF hs = <<>> THEN <<>>
    ELSE BCat(BCat(BStr(Head(hs).pre), Head(hs).body), EncodeHunks(Tail(hs)))

IPS_EOF == <<69, 79, 70>>

\* what follows the hunks: the EOF tag, nothing, the tag and then bytes
\* that read as one more hunk, a tag cut short, or a last hunk cut short
Tails == {"eof", "none", "eof_then_bytes", "short_eof", "cut"}

IpsPatchTail(body, tail) ==
    CASE tail = "eof" -> BCat(body, BStr(IPS_EOF))
      [] tail = "none" -> body
      [] tail = "eof_then_bytes" -> BCat(body, BStr(IPS_EOF \o <<0, 1, 238>>))
      [] tail = "short_eof" -> BCat(body, BStr(<<69, 79>>))
      [] OTHER -> BTake(body, BLen(body) - 1)

IpsPatch(hs, tail) ==
    IpsPatchTail(BCat(BStr(IPS_EXPECTED_MARKER), EncodeHunks(hs)), tail)

Sources ==
    { <<>>,
      BStr(<<97, 98, 99, 100, 101>>),
      BFill(5, 0),
      BFill(BUF_SIZE, 17),
      BCat(BFill(BUF_SIZE, 17), BStr(<<33, 34, 35>>)) }

\* BPS patches: the marker, three header varints (each below 128, so one
\* byte with the high bit set), the actions and the three checksums
Varint1(v) == v + 128
U32Le(w) == <<w[2] % 256, w[2] \div 256, w[1] % 256, w[1] \div 256>>

BpsPatchOf(body, source, target, flip) ==
    BStr(body \o U32Le(crc32(source)) \o U32Le(W32Xor(crc32(target), <<0, flip>>))
         \o U32Le(crc32(body)))

BpsPatch(source_size, target_size, actions, source, target, flip) ==
    BpsPatchOf(BPS_EXPECTED_MARKER
               \o <<Varint1(source_size), Varint1(target_size), Varint1(0)>>
               \o actions,
               source, target, flip)

\* the same file with the patch checksum off by one bit
BpsPatchCrcOff(source_size, target_size, actions, source, target) ==
    BStr(BPS_EXPECTED_MARKER
         \o <<Varint1(source_size), Varint1(target_size), Varint1(0)>>
         \o actions
         \o U32Le(crc32(source)) \o U32Le(crc32(target))
         \o U32Le(W32Xor(crc32(BPS_EXPECTED_MARKER
                               \o <<Varint1(source_size), Varint1(target_size),
                                     Varint1(0)>>
                               \o actions),
                         <<0, 1>>)))

BpsSource == <<97, 98, 99, 100, 101>>

\* TargetRead of 5A, then TargetCopy of length 3 at the delta given as a
\* signed varint (3 is -1, 0 is 0)
BpsTargetCopyRle(delta) ==
    BpsPatch(0, 4, <<Varint1(1), 90, Varint1(11), Varint1(delta)>>,
             <<>>, <<90, 90, 90, 90>>, 0)

\* TargetRead of 41 42, then TargetCopy of length 5 at delta 0
BpsTargetCopyPeriod2 ==
    BpsPatch(0, 7, <<Varint1(5), 65, 66, Varint1(19), Varint1(0)>>,
             <<>>, <<65, 66, 65, 66, 65, 66, 65>>, 0)

\* TargetRead of 41 42 43, then TargetCopy of length 2 at delta +1
BpsTargetCopyApart ==
    BpsPatch(0, 5, <<Varint1(9), 65, 66, 67, Varint1(7), Varint1(2)>>,
             <<>>, <<65, 66, 67, 66, 67>>, 0)

BpsPatches ==
    { \* SourceRead of 5 bytes: the target is the source
      BpsPatch(5, 5, <<Varint1(16)>>, BpsSource, BpsSource, 0),
      \* the same with the target checksum off by one bit
      BpsPatch(5, 5, <<Varint1(16)>>, BpsSource, BpsSource, 1),
      BpsTargetCopyRle(3), BpsTargetCopyRle(0), BpsTargetCopyPeriod2,
      BpsTargetCopyApart,
      \* SourceCopy of length 2 at delta +3, then TargetRead of one byte
      BpsPatch(5, 3, <<Varint1(6), Varint1(6), Varint1(1), 66>>,
               <<100, 101>>, <<100, 101, 66>>, 0),
      \* SourceRead of 5 bytes with the patch checksum off by one bit
      BpsPatchCrcOff(5, 5, <<Varint1(16)>>, BpsSource, BpsSource),
      \* SourceRead of 5 bytes into a target declared 3 bytes long
      BpsPatch(5, 3, <<Varint1(16)>>, BpsSource, BpsSource, 0),
      \* SourceRead of 5 bytes and a trailer cut short
      BStr(BPS_EXPECTED_MARKER \o <<Varint1(5), Varint1(5), Varint1(0), Varint1(16)>>
           \o U32Le(crc32(BpsSource)) \o U32Le(crc32(BpsSource))),
      \* a header cut short, and actions cut short
      BStr(BPS_EXPECTED_MARKER \o <<Varint1(5)>>),
      BStr(BPS_EXPECTED_MARKER \o <<Varint1(0), Varint1(4), Varint1(0), Varint1(1)>>) }

\* neither marker
OtherPatches ==
    { <<>>,
      BStr(<<80, 65, 84>>),
      BStr(<<80, 65, 84, 67, 88, 0, 0, 2, 0, 1, 7, 69, 79, 70>>),
      BStr(<<66, 80, 83>>),
      BStr(<<66, 80, 83, 50, 133, 133, 128>>),
      BStr(<<0, 80, 65, 84, 67, 72, 69, 79, 70>>) }

\* a patch file together with what its author meant by it
IpsAuthoredOf(seqs) ==
    { [patch |-> IpsPatch(hs, t), author |-> [format |-> "ips", hunks |-> hs, tail |-> t]] :
        hs \in seqs, t \in Tails }

IpsAuthored(n) == IpsAuthoredOf(HunkSeqs(n))

BpsAuthored ==
    { [patch |-> p, author |-> [format |-> "bps", hunks |-> <<>>, tail |-> "none"]] :
        p \in BpsPatches }

OtherAuthored ==
    { [patch |-> p, author |-> [format |-> "other", hunks |-> <<>>, tail |-> "none"]] :
        p \in OtherPatches }

Patches == IpsAuthored(MaxHunks) \cup BpsAuthored \cup OtherAuthored

FaultPatches ==
    IpsAuthoredOf(FaultHunkSeqs(MaxFaultHunks)) \cup BpsAuthored \cup OtherAuthored

FaultSources == { BFill(5, 0), BCat(BFill(BUF_SIZE, 17), BStr(<<33, 34, 35>>)) }

\* what the output path holds before the run: nothing, or bytes that occur
\* in no source and in no patch
PRIOR_BYTE == 200
PriorOutputs == { <<>>, BFill(9, PRIOR_BYTE) }

Faults ==
    { [fn |-> "fopen", file |-> f, at |-> 0] : f \in {"input", "output", "patch"} }
    \cup { [fn |-> "fstat", file |-> "input", at |-> 0] }
    \cup { [fn |-> "fseek", file |-> "patch", at |-> 0] }
    \cup { [fn |-> fn, file |-> f, at |-> k] :
             fn \in {"fread"}, f \in {"input", "patch"}, k \in 0..MaxFaultAt }
    \cup { [fn |-> fn, file |-> "output", at |-> k] :
             fn \in {"fwrite", "fseek"}, k \in 0..MaxFaultAt }

Runs ==
    { [src |-> s, patch |-> p.patch, author |-> p.author, fault |-> NoFault,
       prior |-> o] :
        s \in Sources, p \in Patches, o \in PriorOutputs }
    \cup { [src |-> s, patch |-> p.patch, author |-> p.author, fault |-> f,
            prior |-> BFill(9, PRIOR_BYTE)] :
             s \in FaultSources, p \in FaultPatches, f \in Faults }

\* execute_patch runs alone: one thread, and no caller modelled
threads_one == [cur |-> 1, created |-> 1, parked |-> {}]

\* what ui_handle_event returns
EV_NONE == "EV_NONE"
EV_QUIT == "EV_QUIT"
EV_PATCH_COMMAND == "EV_PATCH_COMMAND"

\* the screens of the UI and the prompts of the nav bar
SELECT_ROM == "SELECT_ROM"
SELECT_IPS == "SELECT_IPS"
STATUS_BAR_TEXT_ROM == "Select ROM file | Y=select, B=quit"
STATUS_BAR_TEXT_IPS == "Select IPS file | Y=select, B=back"

\* rombp_ui as ui_start leaves it before the first scan: namelist is NULL
\* (the empty sequence), cwd is the directory current_directory names, the
\* nav bar has no text yet
ui_none(menu_item_count) ==
    [menu_item_count |-> menu_item_count, current_directory |-> <<>>,
     cwd |-> "none", chdirs |-> 0,
     namelist |-> <<>>, namelist_size |-> 0, selected_item |-> 0, selected_offset |-> 0,
     current_screen |-> SELECT_ROM, nav_bar |-> [text |-> "uninit"]]

\* ui_status_bar_reset_text of the nav bar
ui_status_bar_reset_text(ui, text) == [ui EXCEPT !.nav_bar.text = text]

\* pc: where the caller stands; argv: the options of the command line;
\* command: which paths of the patch command are set; patching,
\* local_status, rc: the caller's locals; patch_thread: the thread its
\* pthread_t names; joined: the threads it joined; lock: it holds the mutex
\* of the shared record; copied: the fields its copy has got so far;
\* last_read: what its previous read returned, if there was one since the
\* worker was started; event: what ui_handle_event returned; ui: rombp_ui
observer_none ==
    [pc |-> "none", argv |-> <<>>,
     command |-> [input_file |-> "set", ips_file |-> "set", output_file |-> "set"],
     patching |-> 0, local_status |-> patch_status_init, rc |-> "none",
     patch_thread |-> 1, joined |-> {}, lock |-> FALSE, copied |-> 0, help |-> FALSE,
     last_read |-> <<>>, event |-> EV_NONE, ui |-> ui_none(1)]

InitOf(runs) ==
    /\ \E r \in runs :
           /\ src = r.src /\ patch = r.patch /\ author = r.author
           /\ fault = r.fault /\ prior = r.prior
    /\ pc = "open"
    /\ input_file = Stream("input")
    /\ output_file = Stream("output")
    /\ patch_file = Stream("patch")
    /\ patch_type = PATCH_TYPE_UNKNOWN
    /\ patch_ctx = bps_ctx_none
    /\ local_status = patch_status_init
    /\ status = patch_status_init
    /\ ret = "none"
    /\ trace = trace_none
    /\ threads = threads_one
    /\ observer = observer_none

Init == InitOf(Runs)

Spec == Init /\ [][Next]_vars

(***************************************************************************)
(* The runs of one hunk: a patch of a single hunk, raw or RLE, its offset  *)
(* bytes, its length and its value drawn from the corners of their ranges  *)
(***************************************************************************)
HunkBytes == {0, 1, 255}
HunkOffsets == HunkBytes \X HunkBytes \X HunkBytes
LongHunkOffsets == { <<0, 0, 3>>, <<255, 255, 255>> }
HunkLengths == { <<0, 1>>, <<0, 2>>, <<1, 0>> }
LongHunkLengths == { <<128, 1>>, <<255, 255>> }
HunkValues == {0, 171}

\* offset bytes, length bytes, value: every short shape, and the long
\* lengths (past BUF_SIZE, and the largest) at a few offsets
HunkShapes ==
    (HunkOffsets \X HunkLengths \X HunkValues)
    \cup (LongHunkOffsets \X LongHunkLengths \X {171})

OneHunks ==
    { RawHunk(x[1][1], x[1][2], x[1][3], BFill(x[2][1] * 256 + x[2][2], x[3])) :
        x \in HunkShapes }
    \cup { RleHunk(x[1][1], x[1][2], x[1][3], x[2][1], x[2][2], x[3]) : x \in HunkShapes }

HunkSources == { <<>>, BFill(5, 0), BFill(BUF_SIZE, 17) }

HunkRuns ==
    { [src |-> s, patch |-> IpsPatch(<<h>>, "eof"),
       author |-> [format |-> "ips", hunks |-> <<h>>, tail |-> "eof"],
       fault |-> NoFault, prior |-> <<>>] :
        s \in HunkSources, h \in OneHunks }

InitHunk == InitOf(HunkRuns)

SpecHunk == InitHunk /\ [][Next]_vars

(***************************************************************************)
(* What a patch means, told without the decoder: the bytes b put at        *)
(* position at of data (a gap between the end of data and at is zeros),    *)
(* and the edits of a list of hunks overlaid in patch order                *)
(***************************************************************************)
WriteAt(data, at, b) ==
    BCat(BCat(BTake(BCat(data, BFill(at - BLen(data), 0)), at), b),
         BDrop(data, at + BLen(b)))

RECURSIVE Overlay(_, _)
Overlay(data, hs) ==
    IF hs = <<>> THEN data
    ELSE WriteAt(Overlay(data, SubSeq(hs, 1, Len(hs) - 1)),
                 hs[Len(hs)].offset, hs[Len(hs)].bytes)

\* hunk h covers position p
Covers(h, p) == h.offset <= p /\ p < h.offset + BLen(h.bytes)

\* no two hunks of hs cover a common position
NonOverlapping(hs) ==
    \A i, j \in 1..Len(hs) :
        i < j => (hs[i].offset + BLen(hs[i].bytes) <= hs[j].offset
                  \/ hs[j].offset + BLen(hs[j].bytes) <= hs[i].offset)

\* a run without a failing stdio call on a patch 'PATCH', hunks, 'EOF'
WellFormedIpsRun == fault = NoFault /\ author.format = "ips" /\ author.tail = "eof"

(***************************************************************************)
(* Properties                                                              *)
(***************************************************************************)

\* C1: IPS round trip.  For a source and non-overlapping raw hunks encoded
\* as 'PATCH', hunks, 'EOF', execute_patch returns PATCH_OK and the output
\* is the source with the edits overlaid, at least as long as the source.
C1_RoundTrip ==
    (/\ pc = "returned"
     /\ WellFormedIpsRun
     /\ \A i \in 1..Len(author.hunks) : author.hunks[i].kind = "raw"
     /\ NonOverlapping(author.hunks))
    => /\ ret = PATCH_OK
       /\ output_file.data = Overlay(src, author.hunks)
       /\ BLen(output_file.data) >= BLen(src)

\* C2: when ips_start has returned PATCH_OK the output has the length and
\* the bytes of the source, whatever the source's length.
C2_StartCopiesSource ==
    (/\ pc = "loop"
     /\ fault = NoFault
     /\ patch_type = PATCH_TYPE_IPS
     /\ trace.start_results = <<0>>
     /\ trace.next_results = <<>>)
    => output_file.data = src

\* the three bytes at the patch stream's position are 'EOF'
AtEofPreamble ==
    /\ patch_file.pos + 3 <= BLen(patch_file.data)
    /\ BSeq(BTake(BDrop(patch_file.data, patch_file.pos), 3)) = IPS_EOF

\* C3: a step of the IPS iteration that meets a preamble starting with
\* 'EOF' ends the iteration with HUNK_DONE, applies no hunk and leaves the
\* output and the hunk count as they are, whatever follows in the patch.
C3_EofEndsDecoding ==
    [][(/\ pc = "loop"
        /\ fault = NoFault
        /\ patch_type = PATCH_TYPE_IPS
        /\ local_status.iter_status = HUNK_NEXT
        /\ AtEofPreamble)
       => /\ local_status'.iter_status = HUNK_DONE
          /\ output_file'.data = output_file.data
          /\ local_status'.hunk_count = local_status.hunk_count
          /\ trace'.hunks = trace.hunks]_vars

\* the hunk the next round of the IPS iteration decodes, as its author
\* wrote it
HasNextAuthored == Len(trace.next_results) < Len(author.hunks)
NextAuthored == author.hunks[Len(trace.next_results) + 1]

\* what a stream looks like from outside: its bytes, its position and its
\* indicators
Visible(st) == [data |-> st.data, pos |-> st.pos, eof |-> st.eof, err |-> st.err]

\* a patch stream standing at a raw payload
PayloadStream(payload) == fopen(Stream("payload"), payload, FALSE)

\* the output after a raw hunk at offset whose payload is n copies of v
RawApplied(out, offset, n, v) ==
    ips_patch_hunk([offset |-> offset, length |-> n], out, PayloadStream(BFill(n, v))).out

\* C4: applying an RLE hunk (offset, n, v), n in 1..65535, leaves the output
\* in the state a raw hunk at the same offset with a payload of n copies of
\* v leaves it in.
C4_RleAsRaw ==
    [][(/\ pc = "loop"
        /\ fault = NoFault
        /\ patch_type = PATCH_TYPE_IPS
        /\ local_status.iter_status = HUNK_NEXT
        /\ HasNextAuthored
        /\ NextAuthored.kind = "rle"
        /\ BLen(NextAuthored.bytes) \in 1..65535)
       => /\ local_status'.iter_status = HUNK_NEXT
          /\ Visible(output_file')
               = Visible(RawApplied(output_file, NextAuthored.offset,
                                    BLen(NextAuthored.bytes),
                                    BAt(NextAuthored.body, 2)))]_vars

\* an RLE hunk of the largest run length has been applied
C4_Witness ==
    /\ pc = "loop"
    /\ trace.next_results = <<HUNK_NEXT>>
    /\ author.hunks[1].kind = "rle"
    /\ BLen(author.hunks[1].bytes) = 65535
    /\ output_file.pos = author.hunks[1].offset + 65535

\* the five bytes of the k-th preamble of a patch of well-formed hunks
PreambleAt(k) ==
    BSeq(BTake(BDrop(patch, IPS_MARKER_SIZE + BLen(EncodeHunks(SubSeq(author.hunks, 1, k - 1)))),
               HUNK_PREAMBLE_BYTE_SIZE))

\* C6: for a preamble b0..b4 read in full the offset decoded is
\* b0*65536 + b1*256 + b2, the length decoded is b3*256 + b4, and the body
\* is written with the output positioned at that offset.
C6_BigEndianDecode ==
    \A k \in 1..Len(trace.hunks) :
        k <= Len(author.hunks) =>
            /\ trace.hunks[k].offset
                 = PreambleAt(k)[1] * 65536 + PreambleAt(k)[2] * 256 + PreambleAt(k)[3]
            /\ trace.hunks[k].length = PreambleAt(k)[4] * 256 + PreambleAt(k)[5]
            /\ trace.hunks[k].at = trace.hunks[k].offset

\* a hunk at the largest offset with the largest length has been applied
C6_Witness ==
    /\ pc = "returned"
    /\ Len(trace.hunks) = 1
    /\ PreambleAt(1) = <<255, 255, 255, 255, 255>>
    /\ trace.hunks[1].at = 16777215
    /\ BLen(output_file.data) = 16777215 + 65535

\* the hunks applied so far, as their author wrote them
Applied == SubSeq(author.hunks, 1, Len(trace.hunks))

\* the positions where the set of hunks covering a byte may change
ChangePoints(hs) ==
    { hs[i].offset : i \in 1..Len(hs) }
    \cup { hs[i].offset + BLen(hs[i].bytes) : i \in 1..Len(hs) }

\* the least change point after a
NextPoint(hs, a) ==
    CHOOSE b \in ChangePoints(hs) :
        b > a /\ \A c \in ChangePoints(hs) : c > a => b <= c

\* the last hunk, in patch order, that covers p
LastCovering(hs, p) ==
    CHOOSE i \in 1..Len(hs) :
        Covers(hs[i], p) /\ \A j \in 1..Len(hs) : j > i => ~Covers(hs[j], p)

\* the bytes of s at positions a..b-1
Slice(s, a, b) == BTake(BDrop(s, a), b - a)

\* the bytes from a up to the next change point are those of hunk i
HoldsHunkFrom(data, hs, a, i) ==
    Slice(data, a, NextPoint(hs, a))
      = Slice(hs[i].bytes, a - hs[i].offset, NextPoint(hs, a) - hs[i].offset)

\* C5: hunks in any order, overlapping or not: once a sequence of hunks has
\* been applied, every output byte that some hunk covers holds what the last
\* hunk covering it wrote.
C5_LastWriteWins ==
    (/\ fault = NoFault
     /\ author.format = "ips"
     /\ Len(trace.hunks) <= Len(author.hunks))
    => \A a \in ChangePoints(Applied) :
           (\E i \in 1..Len(Applied) : Covers(Applied[i], a))
           => HoldsHunkFrom(output_file.data, Applied, a, LastCovering(Applied, a))

\* two hunks were applied, the second at a lower offset than the first and
\* overlapping it, and the byte they share is the second's
C5_Witness ==
    /\ pc = "returned"
    /\ fault = NoFault
    /\ Len(author.hunks) = 2
    /\ Len(trace.hunks) = 2
    /\ author.hunks[2].offset < author.hunks[1].offset
    /\ Covers(author.hunks[2], author.hunks[1].offset)
    /\ BAt(author.hunks[1].bytes, 0)
         # BAt(author.hunks[2].bytes, author.hunks[1].offset - author.hunks[2].offset)
    /\ BAt(output_file.data, author.hunks[1].offset)
         = BAt(author.hunks[2].bytes, author.hunks[1].offset - author.hunks[2].offset)

\* the first n bytes of the patch file
PatchStarts(marker) == BSeq(BTake(patch, Len(marker))) = marker

\* the run's failing call is on the patch stream: its k-th fread or one
\* before it, its rewind
PatchReadFails(k) == fault.fn = "fread" /\ fault.file = "patch" /\ fault.at <= k
PatchRewindFails == fault.fn = "fseek" /\ fault.file = "patch"

\* detect_patch_type has returned
Detected == trace.tried # <<>>

\* an Unknown type ends the run with PATCH_UNKNOWN_TYPE and is_done set
UnknownEndsRun ==
    (Detected /\ patch_type = PATCH_TYPE_UNKNOWN)
    => /\ pc \in {"done", "publish", "returned", "crashed"}
       /\ local_status.err = PATCH_UNKNOWN_TYPE
       /\ Len(trace.start_results) = 0
       /\ pc = "returned"
          => /\ ret = PATCH_UNKNOWN_TYPE
             /\ status.err = PATCH_UNKNOWN_TYPE
             /\ status.is_done = 1

Last(q) == q[Len(q)]

\* fopen returned NULL for one of the three files
OpenFailed == \E st \in {input_file, output_file, patch_file} : st.h = "null"

\* the first failure of the run, or the result of end_patch
FirstFailure ==
    IF OpenFailed THEN PATCH_ERR_IO
    ELSE IF patch_type = PATCH_TYPE_UNKNOWN THEN PATCH_UNKNOWN_TYPE
    ELSE IF Last(trace.start_results) < 0 THEN PATCH_FAILED_TO_START
    ELSE IF Last(trace.next_results) = HUNK_ERR_IO THEN PATCH_ERR_IO
    ELSE Last(trace.end_results)

\* C8: execute_patch returns the first failure met: PATCH_ERR_IO when an
\* open failed, else PATCH_UNKNOWN_TYPE when detection failed, else
\* PATCH_FAILED_TO_START when start failed, else PATCH_ERR_IO when a round
\* returned HUNK_ERR_IO, else what end_patch returned; and a failure once
\* recorded is not overwritten, the run going to its end.
C8_FirstFailure ==
    /\ [](pc = "returned" => (ret = FirstFailure /\ status.err = FirstFailure))
    /\ [][local_status.err # PATCH_OK
          => /\ local_status'.err = local_status.err
             /\ pc' \in {"done", "publish", "returned", "crashed"}]_vars

\* a run whose start failed has returned PATCH_FAILED_TO_START
C8_Witness ==
    /\ pc = "returned"
    /\ trace.start_results = <<-1>>
    /\ ret = PATCH_FAILED_TO_START
    /\ status.err = PATCH_FAILED_TO_START

\* execute_patch has left its loop or never entered it
Ended == pc \in {"done", "publish", "returned", "crashed"}

\* C9: start_patch is called at most once and only for a type IPS or BPS;
\* next_hunk only after start_patch succeeded, and again until it returns
\* HUNK_DONE or HUNK_ERR_IO; end_patch once when the iteration ended with
\* HUNK_DONE and never otherwise.
C9_ProtocolOrder ==
    /\ Len(trace.start_results) <= 1
    /\ trace.start_results # <<>>
       => (Detected /\ patch_type \in {PATCH_TYPE_IPS, PATCH_TYPE_BPS})
    /\ trace.next_results # <<>> => trace.start_results = <<0>>
    /\ \A i \in 1..(Len(trace.next_results) - 1) : trace.next_results[i] = HUNK_NEXT
    /\ (Ended /\ trace.start_results = <<0>>)
       => /\ trace.next_results # <<>>
          /\ Last(trace.next_results) \in {HUNK_DONE, HUNK_ERR_IO}
    /\ Len(trace.end_results) <= 1
    /\ trace.end_results # <<>>
       => (trace.next_results # <<>> /\ Last(trace.next_results) = HUNK_DONE)
    /\ (Ended /\ trace.next_results # <<>> /\ Last(trace.next_results) = HUNK_DONE)
       => Len(trace.end_results) = 1

\* a run of two hunks and HUNK_DONE has called end_patch and returned
C9_Witness ==
    /\ pc = "returned"
    /\ trace.start_results = <<0>>
    /\ trace.next_results = <<HUNK_NEXT, HUNK_NEXT, HUNK_DONE>>
    /\ Len(trace.end_results) = 1

\* the number of rounds that returned HUNK_NEXT
CountNext(q) == Cardinality({ i \in 1..Len(q) : q[i] = HUNK_NEXT })

\* C10: hunk_count is the number of next_hunk calls that returned HUNK_NEXT;
\* the shared record is published after every call; when the run returns
\* PATCH_OK the published count is the number of hunks applied to the
\* output.
C10_HunkCount ==
    /\ local_status.hunk_count = CountNext(trace.next_results)
    /\ status.hunk_count = local_status.hunk_count
    /\ trace.next_results # <<>> => status.iter_status = Last(trace.next_results)
    /\ trace.publications = Len(trace.next_results) + (IF pc = "returned" THEN 1 ELSE 0)
    /\ (pc = "returned" /\ ret = PATCH_OK)
       => /\ status.hunk_count = Len(trace.hunks)
          /\ patch_type = PATCH_TYPE_IPS => status.hunk_count = output_file.nsk

\* a run of two hunks has returned PATCH_OK with a published count of 2
C10_Witness ==
    /\ pc = "returned"
    /\ ret = PATCH_OK
    /\ trace.next_results = <<HUNK_NEXT, HUNK_NEXT, HUNK_DONE>>
    /\ status.hunk_count = 2
    /\ output_file.nsk = 2

(***************************************************************************)
(* Failures while a hunk is applied                                        *)
(***************************************************************************)

\* the last round of a run on an IPS patch returned HUNK_ERR_IO
IpsRunFailed ==
    /\ patch_type = PATCH_TYPE_IPS
    /\ trace.next_results # <<>>
    /\ Last(trace.next_results) = HUNK_ERR_IO

\* a call failed while a hunk was applied: a read or a write set a stream's
\* error indicator, a seek of the output failed, or the last hunk of a patch
\* cut short was tried and its payload ended early
HunkFailed ==
    \/ patch_file.err
    \/ output_file.err
    \/ fault.fn = "fseek" /\ fault.file = "output" /\ output_file.nsk > fault.at
    \/ /\ fault = NoFault /\ author.tail = "cut" /\ author.hunks # <<>>
       /\ Len(trace.next_results) >= Len(author.hunks)

\* the round of the loop in which ips_next returns HUNK_ERR_IO
IpsErrorRound ==
    /\ pc = "loop"
    /\ patch_type = PATCH_TYPE_IPS
    /\ local_status.iter_status = HUNK_NEXT
    /\ local_status'.iter_status = HUNK_ERR_IO

\* data with the first j bytes of b put at position at
WrittenPart(data, at, b, j) == IF j <= 0 THEN data ELSE WriteAt(data, at, BTake(b, j))

\* how many bytes of a hunk at offset may be in the output out after the
\* round that failed: none, or those up to the position the stream is at
PartLengths(out, offset, n) == { j \in {0, out.pos - offset} : 0 <= j /\ j < n }

\* C11 as stated: when the round of hunk k returned HUNK_ERR_IO the run
\* returns PATCH_ERR_IO with is_done set and a count of k-1, and every output
\* byte covered by the hunks 1..k-1 holds what the last of them wrote there.
C11_EarlierHunksRemain ==
    (pc = "returned" /\ IpsRunFailed /\ Len(trace.hunks) <= Len(author.hunks))
    => /\ ret = PATCH_ERR_IO
       /\ status.is_done = 1
       /\ status.hunk_count = Len(trace.next_results) - 1
       /\ \A a \in ChangePoints(Applied) :
              (\E i \in 1..Len(Applied) : Covers(Applied[i], a))
              => HoldsHunkFrom(output_file.data, Applied, a, LastCovering(Applied, a))

\* C11: a failure while hunk k is applied is terminal and not rolled back.
\* A failed seek, read or write, or a payload that ends early, makes the
\* round return HUNK_ERR_IO; no round follows it; the run returns
\* PATCH_ERR_IO with is_done set, iter_status HUNK_ERR_IO and a count of k-1;
\* and the failing round leaves the output as the hunks 1..k-1 left it,
\* except for the first bytes of hunk k that it wrote before it failed.
C11_IoFailureTerminal ==
    /\ []((patch_type = PATCH_TYPE_IPS /\ trace.next_results # <<>> /\ HunkFailed)
          => Last(trace.next_results) = HUNK_ERR_IO)
    /\ [](\A i \in 1..(Len(trace.next_results) - 1) :
              trace.next_results[i] = HUNK_NEXT)
    /\ []((pc = "returned" /\ IpsRunFailed)
          => /\ ret = PATCH_ERR_IO
             /\ status = [hunk_count |-> Len(trace.next_results) - 1,
                          iter_status |-> HUNK_ERR_IO,
                          err |-> PATCH_ERR_IO,
                          is_done |-> 1]
             /\ Len(trace.hunks) = Len(trace.next_results) - 1)
    /\ [][IpsErrorRound
          => /\ local_status'.hunk_count = local_status.hunk_count
             /\ trace'.hunks = trace.hunks
             /\ HasNextAuthored
                => \E j \in PartLengths(output_file', NextAuthored.offset,
                                        BLen(NextAuthored.bytes)) :
                       output_file'.data
                         = WrittenPart(output_file.data, NextAuthored.offset,
                                       NextAuthored.bytes, j)]_vars

\* a run of two hunks returned PATCH_ERR_IO with a count of 1: the write of
\* the third byte of the second hunk, an RLE hunk over the first, failed,
\* and the two before it replaced a byte of the first hunk
C11_Witness ==
    /\ pc = "returned"
    /\ IpsRunFailed
    /\ fault.fn = "fwrite" /\ fault.file = "output"
    /\ Len(author.hunks) = 2
    /\ author.hunks[1].offset = 2
    /\ author.hunks[2].kind = "rle"
    /\ status.hunk_count = 1
    /\ ret = PATCH_ERR_IO
    /\ BAt(output_file.data, 1) = 255
    /\ BAt(output_file.data, 2) = 255
    /\ BAt(output_file.data, 3) = 205

\* no stdio call fails, and the payload of the last hunk of the patch
\* ends one byte before its declared length
PayloadCutShort ==
    /\ fault = NoFault
    /\ author.format = "ips"
    /\ author.tail = "cut"
    /\ author.hunks # <<>>

\* what the record shows at the end of a run in which a read of a hunk's
\* payload failed with a stream error
StreamErrorOutcome == [iter_status |-> HUNK_ERR_IO, err |-> PATCH_ERR_IO]

\* C12: a run whose payload read came up short because the patch file ended
\* shows, in iter_status or in err, something else than a run whose read
\* failed with a stream error.
C12_EofDistinctFromIoError ==
    (/\ pc = "returned"
     /\ PayloadCutShort
     /\ feof(patch_file) # 0
     /\ ferror(patch_file) = 0)
    => [iter_status |-> status.iter_status, err |-> status.err] # StreamErrorOutcome

\* the record at the end of the run, as far as C12 looks at it
Outcome == [iter_status |-> status.iter_status, err |-> status.err]

\* C12, as the code has it: a payload that ends early and a read that fails
\* with a stream error are told apart by the stream's indicators only (feof
\* against ferror); both end the run with iter_status HUNK_ERR_IO and err
\* PATCH_ERR_IO.  A preamble that ends early is no error: the run ends with
\* HUNK_DONE and PATCH_OK.
C12_EofReportedAsIoError ==
    /\ (pc = "returned" /\ PayloadCutShort)
       => /\ feof(patch_file) # 0
          /\ ferror(patch_file) = 0
          /\ Outcome = StreamErrorOutcome
    /\ (pc = "returned" /\ patch_type = PATCH_TYPE_IPS /\ trace.next_results # <<>>
        /\ ferror(patch_file) # 0)
       => Outcome = StreamErrorOutcome
    /\ (pc = "returned" /\ fault = NoFault /\ author.format = "ips"
        /\ author.tail \in {"none", "short_eof"})
       => Outcome = [iter_status |-> HUNK_DONE, err |-> PATCH_OK]

\* a run returned after the payload of its second hunk, a raw hunk, ended
\* early, with the outcome of a stream error
C12_Witness ==
    /\ pc = "returned"
    /\ PayloadCutShort
    /\ Len(author.hunks) = 2
    /\ author.hunks[2].kind = "raw"
    /\ trace.next_results = <<HUNK_NEXT, HUNK_ERR_IO>>
    /\ feof(patch_file) # 0
    /\ Outcome = StreamErrorOutcome

(***************************************************************************)
(* File handles                                                            *)
(***************************************************************************)

\* C16: on every path to the done label close_files is handed, for each of
\* the three files, NULL or a handle that is open (never one that was not
\* opened, never one already closed), and when execute_patch has returned no
\* handle is left open.
C16_HandlesReleased ==
    /\ pc = "done" => ~close_is_undefined(input_file, output_file, patch_file)
    /\ pc = "returned"
       => \A st \in {input_file, output_file, patch_file} : st.h # "open"

\* some byte of the byte string s has the value v
HasByte(s, v) == \E i \in 1..Len(s) : s[i][2] = v

\* C20: no step writes to the source, whose content stays what it was; the
\* output is empty when open_patch_files has opened it; and no byte that the
\* output path held before the run is in the output file afterwards.
C20_SourceKeptTargetFresh ==
    /\ [](input_file.nwr = 0)
    /\ [](input_file.h \in {"open", "closed"} => input_file.data = src)
    /\ [](output_file.h \in {"open", "closed"} => ~HasByte(output_file.data, PRIOR_BYTE))
    /\ [][(pc = "open" /\ output_file'.h = "open")
          => (output_file'.data = <<>> /\ output_file'.pos = 0)]_vars

\* a run on an output path that held 9 bytes returned PATCH_OK with a
\* shorter output file, none of whose bytes is one of the 9
C20_Witness ==
    /\ pc = "returned"
    /\ ret = PATCH_OK
    /\ BLen(prior) = 9
    /\ output_file.data # <<>>
    /\ BLen(output_file.data) < BLen(prior)
    /\ ~HasByte(output_file.data, PRIOR_BYTE)
    /\ input_file.data = src

(***************************************************************************)
(* The shared record                                                       *)
(***************************************************************************)

\* C14: within one run of execute_patch the record with is_done = 1 is
\* published once, by the last write of the run: is_done is 0 in the shared
\* record until execute_patch returns and 1 when it has returned, the step
\* that sets it is a publication, and once it is set no step changes any
\* field of the shared record.
C14_DoneIsFinal ==
    /\ [](status.is_done = 1 <=> pc = "returned")
    /\ [][(status.is_done = 0 /\ status'.is_done = 1)
          => /\ trace'.publications = trace.publications + 1
             /\ status' = patch_status_copy(local_status')
             /\ pc' = "returned"]_vars
    /\ [][status.is_done = 1 => status' = status]_vars

\* a run of two hunks has returned: four publications, the last with
\* is_done = 1
C14_Witness ==
    /\ pc = "returned"
    /\ trace.next_results = <<HUNK_NEXT, HUNK_NEXT, HUNK_DONE>>
    /\ trace.publications = 4
    /\ status = [hunk_count |-> 2, iter_status |-> HUNK_DONE, err |-> PATCH_OK,
                 is_done |-> 1]

(***************************************************************************)
(* Termination                                                             *)
(***************************************************************************)

\* the rounds of the loop that did nothing are none: the loop is never
\* entered or left with iter_status HUNK_NONE
LoopWorks == pc = "loop" => local_status.iter_status # HUNK_NONE

\* the calls of next_hunk on an IPS patch are no more than the 5-byte
\* preambles that fit in the patch file
NextCallsBounded ==
    patch_type = PATCH_TYPE_IPS
    => Len(trace.next_results) <= BLen(patch) \div HUNK_PREAMBLE_BYTE_SIZE

\* execute_patch is at a label from which it takes its next step
Running == pc \in {"open", "detect", "start", "loop", "done", "publish"}

\* C17: the worker always terminates.  At every state execute_patch either
\* takes a next step or has returned with is_done = 1 published; no round of
\* the loop is idle; and on an IPS patch next_hunk is called no more often
\* than 5-byte preambles fit in the patch file.
C17_WorkerTerminates ==
    /\ Running \/ (pc = "returned" /\ status.is_done = 1)
    /\ LoopWorks
    /\ NextCallsBounded

(***************************************************************************)
(* The command line: main hands argv to execute_command_line, which        *)
(* parses it, starts the worker, joins it and turns the run's result into  *)
(* the exit status                                                         *)
(***************************************************************************)

\* the values of rombp_patch_err as integers: PATCH_OK is the zero the
\* callers compare with, the failure kinds follow it in the order of the
\* error taxonomy
rombp_patch_err_value(err) ==
    CASE err = PATCH_OK -> 0
      [] err = PATCH_INVALID_OUTPUT_SIZE -> 1
      [] err = PATCH_INVALID_OUTPUT_CHECKSUM -> 2
      [] err = PATCH_UNKNOWN_TYPE -> 3
      [] err = PATCH_FAILED_TO_START -> 4
      [] err = PATCH_ERR_IO -> 5

command_none == [input_file |-> "NULL", ips_file |-> "NULL", output_file |-> "NULL"]

\* parse_command_line over what getopt(argc, argv, "i:p:o:") returns for
\* the options one after the other (the letter of a known option that has
\* its argument, "?" for an unknown flag or a missing argument): the paths
\* are taken up to the first "?", which prints the help and returns -1
RECURSIVE parse_command_line(_, _)
parse_command_line(argv, command) ==
    IF argv = <<>> THEN [rc |-> 0, command |-> command, help |-> FALSE]
    ELSE CASE Head(argv) = "i" ->
                  parse_command_line(Tail(argv), [command EXCEPT !.input_file = "set"])
           [] Head(argv) = "p" ->
                  parse_command_line(Tail(argv), [command EXCEPT !.ips_file = "set"])
           [] Head(argv) = "o" ->
                  parse_command_line(Tail(argv), [command EXCEPT !.output_file = "set"])
           [] OTHER -> [rc |-> 0 - 1, command |-> command, help |-> TRUE]

\* execute_command_line after the join, with the exit status always 0
execute_command_line_zero(st, rc) == 0

\* execute_command_line after the join: -1 if the record is not done, the
\* worker's return value if it is not 0, and 0 after the log line of the
\* switch on status.err
execute_command_line_joined(st, rc) ==
    IF st.is_done = 0 THEN 0 - 1
    ELSE IF rc # 0 THEN rc
    ELSE 0

\* the command lines: the three options in two orders, and command lines
\* with a flag getopt does not know, first, last and in the middle
CliArgvs ==
    { <<"i", "p", "o">>, <<"o", "p", "i">>, <<"?">>, <<"i", "p", "o", "?">>,
      <<"i", "?", "p", "o">> }

threads_none == [cur |-> 0, created |-> 0, parked |-> {}]

InitCli ==
    /\ \E r \in Runs :
           /\ src = r.src /\ patch = r.patch /\ author = r.author
           /\ fault = r.fault /\ prior = r.prior
    /\ pc = "idle"
    /\ input_file = Stream("input")
    /\ output_file = Stream("output")
    /\ patch_file = Stream("patch")
    /\ patch_type = PATCH_TYPE_UNKNOWN
    /\ patch_ctx = bps_ctx_none
    /\ local_status = patch_status_init
    /\ status = patch_status_init
    /\ ret = "none"
    /\ trace = trace_none
    /\ threads = threads_none
    /\ \E a \in CliArgvs :
           observer = [observer_none EXCEPT !.pc = "parse", !.argv = a,
                                            !.command = command_none,
                                            !.patch_thread = 0]

\* execute_command_line up to the check of parse_command_line's result
CliParse ==
    /\ observer.pc = "parse"
    /\ \E r \in {parse_command_line(observer.argv, observer.command)} :
           observer' = [observer EXCEPT
                            !.command = r.command,
                            !.help = r.help,
                            !.rc = IF r.rc # 0 THEN r.rc ELSE @,
                            !.pc = IF r.rc # 0 THEN "exited" ELSE "start"]
    /\ UNCHANGED <<src, patch, prior, author, fault, pc, input_file, output_file,
                   patch_file, patch_type, patch_ctx, local_status, status, ret,
                   trace, threads>>

\* execute_command_line: thread_args set up, patch_status_init on the
\* shared record, and rombp_start_patch_thread, whose pthread_create
\* succeeds: the worker stands at the start of execute_patch
CliStart ==
    /\ observer.pc = "start"
    /\ pc = "idle"
    /\ status' = patch_status_init
    /\ pc' = "open"
    /\ threads' = [threads EXCEPT !.cur = 1, !.created = 1]
    /\ observer' = [observer EXCEPT !.patch_thread = 1, !.pc = "wait"]
    /\ UNCHANGED <<src, patch, prior, author, fault, input_file, output_file,
                   patch_file, patch_type, patch_ctx, local_status, ret, trace>>

\* execute_command_line: rombp_wait_patch_thread returns once the worker
\* has returned from execute_patch_threaded, which stored execute_patch's
\* result in thread_args.rc; then the checks and the exit status
CliWait ==
    /\ observer.pc = "wait"
    /\ pc = "returned"
    /\ observer' = [observer EXCEPT
                        !.joined = @ \cup {observer.patch_thread},
                        !.rc = execute_command_line_joined(
                                   status, rombp_patch_err_value(ret)),
                        !.pc = "exited"]
    /\ UNCHANGED <<src, patch, prior, author, fault, pc, input_file, output_file,
                   patch_file, patch_type, patch_ctx, local_status, status, ret,
                   trace, threads>>

NextCli == CliParse \/ CliStart \/ Next \/ CliWait

SpecCli == InitCli /\ [][NextCli]_vars

\* C18: when execute_command_line has returned: if an unknown flag was met
\* the help was printed, the value is not 0 and no worker was started;
\* otherwise the three paths are set, the worker was started and joined,
\* and the value is 0 exactly if the run ended with err PATCH_OK
C18_CliExitStatus ==
    observer.pc = "exited" =>
        IF "?" \in { observer.argv[i] : i \in DOMAIN observer.argv }
        THEN /\ observer.help
             /\ observer.rc # 0
             /\ threads.created = 0
             /\ pc = "idle"
             /\ status = patch_status_init
        ELSE /\ ~observer.help
             /\ observer.command = [input_file |-> "set", ips_file |-> "set",
                                    output_file |-> "set"]
             /\ threads.created = 1
             /\ observer.joined = {1}
             /\ pc = "returned"
             /\ status.is_done = 1
             /\ ret = status.err
             /\ (observer.rc = 0) <=> (status.err = PATCH_OK)

\* a command line with the three options whose run failed for I/O, with
\* the exit status that is not 0
C18_Witness ==
    /\ observer.pc = "exited"
    /\ observer.argv = <<"o", "p", "i">>
    /\ status.err = PATCH_ERR_IO
    /\ status.iter_status = HUNK_ERR_IO
    /\ observer.rc # 0

(***************************************************************************)
(* The UI loop: ui_loop handles one key event, then, if it is patching,    *)
(* copies the shared record out and acts on the copy.  The worker          *)
(* variables hold the worker that is scheduled; the other workers are      *)
(* parked in threads.parked.  Each worker has its own streams: what two    *)
(* workers do to one output file is outside the model.                     *)
(***************************************************************************)
MaxStarts == 2         \* EV_PATCH_COMMAND events handled in one run of the UI

\* the keys ui_handle_event tells apart; "none" when SDL_PollEvent has no
\* event
Keys == {"SDLK_RETURN", "SDLK_b", "SDLK_q", "SDLK_UP", "SDLK_DOWN", "none"}

MaxMenuItems == 3      \* MENU_ITEM_COUNT, set in ui.h: every value from 1 up to this
MaxChdirs == 3         \* directories entered in one run of the UI

DT_DIR == "DT_DIR"
DT_REG == "DT_REG"

\* a directory entry: its type, its name as a string of characters and,
\* for a directory, the directory the name leads to
DirEntry(name, to) == [d_type |-> DT_DIR, d_name |-> name, to |-> to]
RegEntry(name) == [d_type |-> DT_REG, d_name |-> name, to |-> "none"]

\* the directories the UI can walk: what scandir with dir_alphasort
\* returns for each (directories first, then by name), "locked" being a
\* directory scandir fails on; "single" holds one patch file
Directories == {"start", "parent", "sub", "locked", "single"}

scandir(dir) ==
    CASE dir = "start" ->
             [rc |-> 7,
              namelist |-> <<DirEntry(<<".">>, "start"),
                             DirEntry(<<".", ".">>, "parent"),
                             DirEntry(<<"l", "o", "c", "k", "e", "d">>, "locked"),
                             DirEntry(<<"s", "u", "b">>, "sub"),
                             RegEntry(<<"R", "E", "A", "D", "M", "E">>),
                             RegEntry(<<"f", "i", "x", ".", "i", "p", "s">>),
                             RegEntry(<<"r", "o", "m", ".", "s", "m", "c">>)>>]
      [] dir = "parent" ->
             [rc |-> 2,
              namelist |-> <<DirEntry(<<".">>, "parent"),
                             DirEntry(<<".", ".">>, "parent")>>]
      [] dir = "sub" ->
             [rc |-> 3,
              namelist |-> <<DirEntry(<<".">>, "sub"),
                             DirEntry(<<".", ".">>, "start"),
                             RegEntry(<<".", "i", "p", "s">>)>>]
      [] dir = "single" ->
             [rc |-> 1, namelist |-> <<RegEntry(<<"f", "i", "x", ".", "i", "p", "s">>)>>]
      [] OTHER -> [rc |-> 0 - 1, namelist |-> <<>>]

\* ui_scan_directory: ui_directory_free, then scandir; when scandir fails
\* the sizes and the selection stay as they were
ui_scan_directory_scanned(ui, r) ==
    IF r.rc = 0 - 1
    THEN [rc |-> 0 - 1, ui |-> [ui EXCEPT !.namelist = <<>>]]
    ELSE [rc |-> 0,
          ui |-> [ui EXCEPT !.namelist = r.namelist, !.namelist_size = r.rc,
                            !.selected_item = 0, !.selected_offset = 0]]

ui_scan_directory(ui) == ui_scan_directory_scanned(ui, scandir(ui.cwd))

concat_path(parent, child) == parent \o <<"/">> \o child

\* ui_change_directory to the entry e of the listing
ui_change_directory(ui, e) ==
    [ui EXCEPT !.current_directory = IF @ = <<>> THEN e.d_name
                                     ELSE concat_path(@, e.d_name),
               !.cwd = e.to, !.chdirs = @ + 1]

\* ui_start: the directory "." and its first scan, then the nav bar with
\* the ROM prompt
ui_start(menu_item_count, dir) ==
    [ui_scan_directory(
         [ui_change_directory(ui_none(menu_item_count), DirEntry(<<".">>, dir))
             EXCEPT !.chdirs = 0]).ui
        EXCEPT !.nav_bar.text = STATUS_BAR_TEXT_ROM]

\* replace_extension: the character at the 0-based index end of the copy,
\* the terminating NUL at its length
CharAt(out, end) == IF end < Len(out) THEN out[end + 1] ELSE "NUL"

\* the while loop back to the last '.', '\' or '/', or to the start
RECURSIVE replace_extension_end(_, _)
replace_extension_end(out, end) ==
    IF end > 0 /\ CharAt(out, end) \notin {".", "\\", "/"}
    THEN replace_extension_end(out, end - 1)
    ELSE end

replace_extension_at(out, new_ext, end) ==
    IF end > 0 /\ CharAt(out, end) = "." /\ CharAt(out, end - 1) \notin {"\\", "/"}
    THEN [rc |-> 0, output |-> SubSeq(out, 1, end) \o new_ext]
    ELSE [rc |-> 0 - 1, output |-> <<>>]

replace_extension(input, new_ext) ==
    replace_extension_at(input, new_ext, replace_extension_end(input, Len(input)))

ui_handle_back(ui, command) ==
    IF command.input_file = "NULL"
    THEN [event |-> EV_QUIT, ui |-> ui, command |-> command]
    ELSE [event |-> EV_NONE, ui |-> [ui EXCEPT !.current_screen = SELECT_ROM],
          command |-> [command EXCEPT !.input_file = "NULL"]]

\* lines 344-360: the patch file is chosen, and the output path when
\* replace_extension gives one; a path of the command is "set" or "NULL"
ui_handle_select_ips(ui, command, r) ==
    IF r.rc # 0
    THEN [rc |-> r.rc, ui |-> ui, command |-> [command EXCEPT !.ips_file = "set"]]
    ELSE [rc |-> 0, ui |-> ui,
          command |-> [command EXCEPT !.ips_file = "set", !.output_file = "set"]]

ui_handle_select_scanned(command, r) == [rc |-> r.rc, ui |-> r.ui, command |-> command]

\* ui_handle_select of the entry e under the selection
ui_handle_select_item(ui, command, e) ==
    IF e.d_type = DT_DIR
    THEN ui_handle_select_scanned(
             command, ui_scan_directory(ui_change_directory(ui, e)))
    ELSE IF command.input_file = "NULL"
    THEN [rc |-> 0,
          ui |-> ui_status_bar_reset_text([ui EXCEPT !.current_screen = SELECT_IPS],
                                          STATUS_BAR_TEXT_IPS),
          command |-> [command EXCEPT !.input_file = "set"]]
    ELSE IF command.ips_file = "NULL"
    THEN ui_handle_select_ips(
             ui, command,
             replace_extension(concat_path(ui.current_directory, e.d_name),
                               <<".", "s", "m", "c">>))
    ELSE [rc |-> 0, ui |-> ui, command |-> command]

\* line 324 reads namelist[selected_item + selected_offset]: it is there
SelectionListed(ui) ==
    (ui.selected_item + ui.selected_offset + 1) \in DOMAIN ui.namelist

ui_handle_select(ui, command) ==
    ui_handle_select_item(ui, command,
                          ui.namelist[ui.selected_item + ui.selected_offset + 1])

\* lines 400-410: after ui_handle_select
ui_handle_event_selected(r) ==
    IF r.rc # 0 THEN [event |-> EV_NONE, ui |-> r.ui, command |-> r.command]
    ELSE IF r.command.input_file # "NULL" /\ r.command.ips_file # "NULL"
    THEN [event |-> EV_PATCH_COMMAND,
          ui |-> ui_status_bar_reset_text([r.ui EXCEPT !.current_screen = SELECT_ROM],
                                          STATUS_BAR_TEXT_ROM),
          command |-> r.command]
    ELSE [event |-> EV_NONE, ui |-> r.ui, command |-> r.command]

\* lines 412-425: SDLK_DOWN
ui_handle_event_down(ui, nitems) ==
    IF ui.selected_item = nitems - 1
    THEN [ui EXCEPT !.selected_item = nitems - 1,
                    !.selected_offset =
                        IF @ # (IF ui.namelist_size = nitems THEN 0
                                ELSE ui.namelist_size - nitems)
                        THEN @ + 1 ELSE @]
    ELSE [ui EXCEPT !.selected_item = @ + 1]

\* lines 426-435: SDLK_UP
ui_handle_event_up(ui) ==
    IF ui.selected_item = 0
    THEN [ui EXCEPT !.selected_item = 0,
                    !.selected_offset = IF @ # 0 THEN @ - 1 ELSE @]
    ELSE [ui EXCEPT !.selected_item = @ - 1]

ui_handle_event(ui, command, key) ==
    CASE key = "SDLK_q" -> [event |-> EV_QUIT, ui |-> ui, command |-> command]
      [] key = "SDLK_b" -> ui_handle_back(ui, command)
      [] key = "SDLK_RETURN" -> ui_handle_event_selected(ui_handle_select(ui, command))
      [] key = "SDLK_DOWN" ->
             [event |-> EV_NONE, command |-> command,
              ui |-> ui_handle_event_down(ui, Min(ui.menu_item_count, ui.namelist_size))]
      [] key = "SDLK_UP" ->
             [event |-> EV_NONE, command |-> command, ui |-> ui_handle_event_up(ui)]
      [] OTHER -> [event |-> EV_NONE, ui |-> ui, command |-> command]

ui_free_command(command) == command_none

\* patch_status_reset: the fields as patch_status_init leaves them
patch_status_reset(st) == patch_status_init

\* pthread_mutex_lock of the record's mutex by the observer, left out
pthread_mutex_lock_skipped(o) == o

\* pthread_mutex_lock of the record's mutex by the observer
pthread_mutex_lock(o) == [o EXCEPT !.lock = TRUE]

pthread_mutex_unlock(o) == [o EXCEPT !.lock = FALSE]

\* patch_status_copy, one field after the other
StatusFields == <<"hunk_count", "iter_status", "err", "is_done">>

patch_status_copy_field(dst, from, i) ==
    CASE StatusFields[i] = "hunk_count" -> [dst EXCEPT !.hunk_count = from.hunk_count]
      [] StatusFields[i] = "iter_status" -> [dst EXCEPT !.iter_status = from.iter_status]
      [] StatusFields[i] = "err" -> [dst EXCEPT !.err = from.err]
      [] OTHER -> [dst EXCEPT !.is_done = from.is_done]

\* the worker in the worker variables, as it is parked
Scheduled ==
    [tid |-> threads.cur, pc |-> pc, input_file |-> input_file,
     output_file |-> output_file, patch_file |-> patch_file,
     patch_type |-> patch_type, patch_ctx |-> patch_ctx,
     local_status |-> local_status, ret |-> ret, trace |-> trace]

\* a worker as pthread_create leaves it, at the start of execute_patch
Created(tid) ==
    [tid |-> tid, pc |-> "open", input_file |-> Stream("input"),
     output_file |-> Stream("output"), patch_file |-> Stream("patch"),
     patch_type |-> PATCH_TYPE_UNKNOWN, patch_ctx |-> bps_ctx_none,
     local_status |-> patch_status_init, ret |-> "none", trace |-> trace_none]

Workers == IF threads.cur = 0 THEN threads.parked ELSE threads.parked \cup {Scheduled}

\* the worker c takes the worker variables
Schedule(c) ==
    /\ pc' = c.pc
    /\ input_file' = c.input_file
    /\ output_file' = c.output_file
    /\ patch_file' = c.patch_file
    /\ patch_type' = c.patch_type
    /\ patch_ctx' = c.patch_ctx
    /\ local_status' = c.local_status
    /\ ret' = c.ret
    /\ trace' = c.trace

\* the process runs: ui_loop has not returned and no worker has ended it
ProcessRuns == observer.pc # "out" /\ pc # "crashed"

UiPatches ==
    { p \in IpsAuthoredOf({ <<RawHunk(0, 0, 2, BStr(<<171, 205>>)),
                              RleHunk(0, 0, 1, 0, 4, 255)>> }) :
        p.author.tail \in {"eof", "cut"} }
    \cup { p \in BpsAuthored :
             p.patch = BpsPatch(0, 4, <<Varint1(1), 90, Varint1(11), Varint1(3)>>,
                                <<>>, <<90, 90, 90, 90>>, 0) }
    \cup { p \in OtherAuthored : p.patch = <<>> }

UiRuns ==
    { [src |-> s, patch |-> p.patch, author |-> p.author, fault |-> f,
       prior |-> BFill(9, PRIOR_BYTE)] :
        s \in {BFill(5, 0)}, p \in UiPatches,
        f \in {NoFault, [fn |-> "fopen", file |-> "input", at |-> 0]} }

InitUi ==
    /\ \E r \in UiRuns :
           /\ src = r.src /\ patch = r.patch /\ author = r.author
           /\ fault = r.fault /\ prior = r.prior
    /\ pc = "idle"
    /\ input_file = Stream("input")
    /\ output_file = Stream("output")
    /\ patch_file = Stream("patch")
    /\ patch_type = PATCH_TYPE_UNKNOWN
    /\ patch_ctx = bps_ctx_none
    /\ local_status = patch_status_init
    /\ status = patch_status_init
    /\ ret = "none"
    /\ trace = trace_none
    /\ threads = threads_none
    /\ observer = [observer_none EXCEPT !.pc = "event", !.command = command_none,
                                        !.patch_thread = 0,
                                        !.ui = ui_start(1, "single")]

\* ui_loop: ui_handle_event and the switch on the event.  EV_PATCH_COMMAND
\* resets the shared record and creates a worker, which is scheduled; the
\* worker that was scheduled is parked.
UiEvent ==
    /\ ProcessRuns
    /\ observer.pc = "event"
    /\ \E key \in Keys :
         \E r \in {ui_handle_event(observer.ui, observer.command, key)} :
           CASE r.event = EV_QUIT ->
                    /\ observer' = [observer EXCEPT !.command = r.command,
                                                    !.ui = r.ui, !.event = r.event,
                                                    !.rc = 0, !.pc = "out"]
                    /\ UNCHANGED <<status, threads, pc, input_file, output_file,
                                   patch_file, patch_type, patch_ctx, local_status,
                                   ret, trace>>
             [] r.event = EV_PATCH_COMMAND ->
                    /\ threads.created < MaxStarts
                    /\ status' = patch_status_reset(status)
                    /\ threads' = [cur |-> threads.created + 1,
                                   created |-> threads.created + 1,
                                   parked |-> Workers]
                    /\ Schedule(Created(threads.created + 1))
                    /\ observer' = [observer EXCEPT
                                        !.command = r.command,
                                        !.ui = r.ui, !.event = r.event,
                                        !.patch_thread = threads.created + 1,
                                        !.patching = 1,
                                        !.last_read = <<>>,
                                        !.pc = "poll"]
             [] OTHER ->
                    /\ observer' = [observer EXCEPT !.command = r.command,
                                                    !.ui = r.ui, !.event = r.event,
                                                    !.pc = "poll"]
                    /\ UNCHANGED <<status, threads, pc, input_file, output_file,
                                   patch_file, patch_type, patch_ctx, local_status,
                                   ret, trace>>
    /\ UNCHANGED <<src, patch, prior, author, fault>>

\* ui_loop: "if (patching)", and rombp_read_patch_status up to the lock;
\* when not patching, ui_draw and the delay
UiPoll ==
    /\ ProcessRuns
    /\ observer.pc = "poll"
    /\ observer' = IF observer.patching = 0
                   THEN [observer EXCEPT !.pc = "event"]
                   ELSE pthread_mutex_lock([observer EXCEPT !.pc = "copy",
                                                            !.copied = 0])
    /\ UNCHANGED <<src, patch, prior, author, fault, pc, input_file, output_file,
                   patch_file, patch_type, patch_ctx, local_status, status, ret,
                   trace, threads>>

\* rombp_read_patch_status: patch_status_copy of the next field, and the
\* unlock after the last one
UiCopy ==
    /\ ProcessRuns
    /\ observer.pc = "copy"
    /\ \E o \in {[observer EXCEPT
                      !.local_status = patch_status_copy_field(
                                           @, status, observer.copied + 1),
                      !.copied = @ + 1]} :
           observer' = IF o.copied < Len(StatusFields) THEN o
                       ELSE pthread_mutex_unlock(
                                [o EXCEPT !.pc = "switch",
                                          !.last_read = <<o.local_status>>])
    /\ UNCHANGED <<src, patch, prior, author, fault, pc, input_file, output_file,
                   patch_file, patch_type, patch_ctx, local_status, status, ret,
                   trace, threads>>

\* ui_loop: the switch on local_status.iter_status, up to the join
UiSwitch ==
    /\ ProcessRuns
    /\ observer.pc = "switch"
    /\ observer' =
           CASE observer.local_status.iter_status = HUNK_DONE
                /\ observer.local_status.is_done # 0 ->
                    [observer EXCEPT !.pc = "join"]
             [] observer.local_status.iter_status = HUNK_ERR_IO ->
                    [observer EXCEPT !.command = ui_free_command(@),
                                     !.patching = 0, !.pc = "event"]
             [] OTHER -> [observer EXCEPT !.pc = "event"]
    /\ UNCHANGED <<src, patch, prior, author, fault, pc, input_file, output_file,
                   patch_file, patch_type, patch_ctx, local_status, status, ret,
                   trace, threads>>

\* ui_loop: rombp_wait_patch_thread on the thread patch_thread names, which
\* returns when that thread has returned; then ui_free_command and
\* patching = 0
UiJoin ==
    /\ ProcessRuns
    /\ observer.pc = "join"
    /\ \E c \in Workers : c.tid = observer.patch_thread /\ c.pc = "returned"
    /\ observer' = [observer EXCEPT !.joined = @ \cup {observer.patch_thread},
                                    !.command = ui_free_command(@),
                                    !.patching = 0, !.pc = "event"]
    /\ UNCHANGED <<src, patch, prior, author, fault, pc, input_file, output_file,
                   patch_file, patch_type, patch_ctx, local_status, status, ret,
                   trace, threads>>

\* open_patch_files of a worker that finds a path of the command freed
\* (ui_handle_back, ui_free_command): fopen reads freed memory or is given
\* NULL; the call may also go on as if the path were there, which is Open
UiOpenFreed ==
    /\ ProcessRuns
    /\ pc = "open"
    /\ \/ observer.command.input_file = "NULL"
       \/ observer.command.ips_file = "NULL"
       \/ observer.command.output_file = "NULL"
    /\ pc' = "crashed"
    /\ UNCHANGED <<src, patch, prior, author, fault, input_file, output_file,
                   patch_file, patch_type, patch_ctx, local_status, status, ret,
                   trace, threads, observer>>

\* the scheduler takes another worker that has not returned
UiSchedule ==
    /\ ProcessRuns
    /\ \E c \in threads.parked :
           /\ c.pc # "returned"
           /\ Schedule(c)
           /\ threads' = [threads EXCEPT !.cur = c.tid,
                                         !.parked = (@ \ {c}) \cup {Scheduled}]
    /\ UNCHANGED <<src, patch, prior, author, fault, status, observer>>

\* a step of the scheduled worker
UiWorker == ProcessRuns /\ Next

NextUi ==
    UiEvent \/ UiPoll \/ UiCopy \/ UiSwitch \/ UiJoin \/ UiOpenFreed \/ UiSchedule
    \/ UiWorker

SpecUi == InitUi /\ [][NextUi]_vars

(***************************************************************************)
(* ui_loop as far as the menu and the patch command go.  A worker touches  *)
(* neither; that the observer has seen its run end shows as the command    *)
(* freed and patching cleared.                                             *)
(***************************************************************************)
MenuRuns == { r \in UiRuns : r.fault = NoFault /\ r.author.format = "bps" }

InitMenu ==
    /\ \E r \in MenuRuns :
           /\ src = r.src /\ patch = r.patch /\ author = r.author
           /\ fault = r.fault /\ prior = r.prior
    /\ pc = "idle"
    /\ input_file = Stream("input")
    /\ output_file = Stream("output")
    /\ patch_file = Stream("patch")
    /\ patch_type = PATCH_TYPE_UNKNOWN
    /\ patch_ctx = bps_ctx_none
    /\ local_status = patch_status_init
    /\ status = patch_status_init
    /\ ret = "none"
    /\ trace = trace_none
    /\ threads = threads_none
    /\ \E m \in 1..MaxMenuItems :
           observer = [observer_none EXCEPT !.pc = "event", !.command = command_none,
                                            !.patch_thread = 0,
                                            !.ui = ui_start(m, "start")]

\* RETURN on a directory enters it
EntersDirectory(ui, key) ==
    /\ key = "SDLK_RETURN"
    /\ ui.namelist[ui.selected_item + ui.selected_offset + 1].d_type = DT_DIR

\* ui_handle_event and the switch of ui_loop on the event
MenuEvent ==
    /\ observer.pc = "event"
    /\ \E key \in Keys :
           /\ key = "SDLK_RETURN" => SelectionListed(observer.ui)
           /\ EntersDirectory(observer.ui, key) => observer.ui.chdirs < MaxChdirs
           /\ \E r \in {ui_handle_event(observer.ui, observer.command, key)} :
                  observer' = [observer EXCEPT
                                   !.ui = r.ui, !.command = r.command,
                                   !.event = r.event,
                                   !.patching = IF r.event = EV_PATCH_COMMAND
                                                THEN 1 ELSE @,
                                   !.rc = IF r.event = EV_QUIT THEN 0 ELSE @,
                                   !.pc = IF r.event = EV_QUIT THEN "out" ELSE "poll"]
    /\ UNCHANGED <<src, patch, prior, author, fault, pc, input_file, output_file,
                   patch_file, patch_type, patch_ctx, local_status, status, ret,
                   trace, threads>>

\* ui_loop: "if (patching)"; the read may show the end of the run, after
\* which the command is freed and patching cleared
MenuPoll ==
    /\ observer.pc = "poll"
    /\ \/ observer' = [observer EXCEPT !.pc = "draw"]
       \/ /\ observer.patching = 1
          /\ observer' = [observer EXCEPT !.command = ui_free_command(@),
                                          !.patching = 0, !.pc = "draw"]
    /\ UNCHANGED <<src, patch, prior, author, fault, pc, input_file, output_file,
                   patch_file, patch_type, patch_ctx, local_status, status, ret,
                   trace, threads>>

\* draw_menu reads namelist[selected_offset + i] for the items on screen:
\* they are there
draw_menu(ui) ==
    \A i \in 0..(Min(ui.menu_item_count, ui.namelist_size) - 1) :
        (ui.selected_offset + i + 1) \in DOMAIN ui.namelist

\* ui_draw; reading through a NULL namelist ends the process
MenuDraw ==
    /\ observer.pc = "draw"
    /\ observer' = [observer EXCEPT
                        !.pc = IF draw_menu(observer.ui) THEN "event" ELSE "crashed"]
    /\ UNCHANGED <<src, patch, prior, author, fault, pc, input_file, output_file,
                   patch_file, patch_type, patch_ctx, local_status, status, ret,
                   trace, threads>>

NextMenu == MenuEvent \/ MenuPoll \/ MenuDraw

SpecMenu == InitMenu /\ [][NextMenu]_vars

(***************************************************************************)
(* Workers and joins in the UI loop                                        *)
(***************************************************************************)
\* the threads created and not joined
Unjoined == (1..threads.created) \ observer.joined

\* the workers that have not returned from execute_patch_threaded
Running_workers == { c \in Workers : c.pc # "returned" }

\* C19: at most one patch worker exists at any time: of the workers the UI
\* loop has started (each start resets the shared record first) at most one
\* has not been joined, and at most one has not returned
C19_AtMostOneWorker ==
    /\ Cardinality(Unjoined) <= 1
    /\ Cardinality(Running_workers) <= 1

\* C15: the observer joins a worker only after its copy of the record had
\* is_done = 1, and whenever it stops tracking a run (patching from 1 to 0,
\* the command freed) it has joined the worker of that run
C15_JoinedBeforeUntracked ==
    [][/\ observer'.joined # observer.joined
           => observer.local_status.is_done = 1
       /\ (observer.patching = 1 /\ observer'.patching = 0)
           => /\ observer'.command = command_none
              /\ observer.patch_thread \in observer'.joined]_vars

(***************************************************************************)
(* The shared record under the mutex                                       *)
(***************************************************************************)
\* the records the workers have published with rombp_update_patch_status
AllPublished == UNION { c.trace.published : c \in Workers }

Field(st, i) ==
    CASE StatusFields[i] = "hunk_count" -> st.hunk_count
      [] StatusFields[i] = "iter_status" -> st.iter_status
      [] StatusFields[i] = "err" -> st.err
      [] OTHER -> st.is_done

IpsNextRound ==
    /\ pc = "loop" /\ patch_type = PATCH_TYPE_IPS
    /\ local_status.iter_status = HUNK_NEXT
    /\ Len(trace'.next_results) = Len(trace.next_results) + 1

\* fewer than HUNK_PREAMBLE_BYTE_SIZE bytes are left in the patch stream
\* and its next fread does not fail
PreambleShortAtEof ==
    /\ BLen(patch_file.data) - patch_file.pos < HUNK_PREAMBLE_BYTE_SIZE
    /\ ~Fails("fread", patch_file, patch_file.nrd)

\* C23: ips_next returns HUNK_DONE exactly when the read of the preamble
\* comes up short at the end of the file without a stream error, whatever
\* the bytes read, and it leaves the stream at its end; and a run without a
\* fault on an IPS patch that stops at a hunk boundary or inside a preamble
\* ends with HUNK_DONE, err PATCH_OK and all its hunks counted
C23_ShortPreambleEndsPatch ==
    /\ [][IpsNextRound
            => /\ (Last(trace'.next_results) = HUNK_DONE) <=> PreambleShortAtEof
               /\ Last(trace'.next_results) = HUNK_DONE
                    => /\ feof(patch_file') # 0 /\ ferror(patch_file') = 0
                       /\ patch_file'.pos = BLen(patch_file.data)
                       /\ output_file' = output_file]_vars
    /\ [](/\ pc = "returned" /\ fault = NoFault
          /\ author.format = "ips" /\ author.tail \in {"none", "short_eof"}
          => /\ status = [hunk_count |-> Len(author.hunks), iter_status |-> HUNK_DONE,
                          err |-> PATCH_OK, is_done |-> 1]
             /\ Last(trace.next_results) = HUNK_DONE)

\* a patch of two hunks followed by the two bytes 'EO' has ended with
\* PATCH_OK, the patch stream at its end
C23_Witness ==
    /\ pc = "returned" /\ fault = NoFault
    /\ author.format = "ips" /\ author.tail = "short_eof"
    /\ Len(author.hunks) = 2
    /\ status.err = PATCH_OK /\ status.iter_status = HUNK_DONE
    /\ patch_file.pos = BLen(patch) /\ patch_file.eof

(***************************************************************************)
(* Files closed before is_done is published                                *)
(***************************************************************************)
\* the worker c holds none of its three files open
FilesClosed(c) ==
    \A st \in {c.input_file, c.output_file, c.patch_file} : st.h # "open"

\* the worker c has published a record with is_done = 1
PublishedDone(c) == \E r \in c.trace.published : r.is_done = 1

\* C24: when a record with is_done = 1 is in the shared record, a worker
\* published it and that worker holds none of the files of its run open;
\* the files are closed in the state before the step that publishes
\* is_done = 1, and the worker opens and writes nothing afterwards
C24_ClosedBeforeDone ==
    /\ [](\A c \in Workers : PublishedDone(c) => FilesClosed(c))
    /\ [](status.is_done = 1
            => \E c \in Workers : status \in c.trace.published /\ FilesClosed(c))
    /\ [][(status.is_done = 0 /\ status'.is_done = 1)
            => /\ FilesClosed(Scheduled)
               /\ <<input_file, output_file, patch_file>>'
                      = <<input_file, output_file, patch_file>>]_vars
    /\ [][PublishedDone(Scheduled) /\ threads'.cur = threads.cur
            => <<input_file, output_file, patch_file>>'
                   = <<input_file, output_file, patch_file>>]_vars

\* is_done = 1 is in the shared record after a run that wrote to the
\* output file, which is closed
C24_Witness ==
    /\ status.is_done = 1
    /\ status.hunk_count = 2
    /\ output_file.nwr > 0
    /\ output_file.h = "closed" /\ input_file.h = "closed" /\ patch_file.h = "closed"

(***************************************************************************)
(* What a snapshot of the shared record can hold                           *)
(***************************************************************************)
SnapshotConsistent(r) ==
    /\ r.is_done = 0 => r.err = PATCH_OK
    /\ r.is_done = 1 => r.iter_status \in {HUNK_DONE, HUNK_ERR_IO}
    /\ (r.is_done = 1 /\ r.err = PATCH_OK) => r.iter_status = HUNK_DONE

\* C25: the shared record, every record a worker has published and every
\* record the observer has copied out satisfy: is_done = 0 implies err
\* PATCH_OK; is_done = 1 implies iter_status HUNK_DONE or HUNK_ERR_IO; and
\* is_done = 1 with err PATCH_OK implies iter_status HUNK_DONE
C25_SnapshotConsistent ==
    /\ SnapshotConsistent(status)
    /\ \A r \in AllPublished : SnapshotConsistent(r)
    /\ observer.pc \in {"switch", "join", "exited"}
         => SnapshotConsistent(observer.local_status)

\* the last record of a run that failed in its second hunk
C25_Witness ==
    /\ status = [hunk_count |-> 1, iter_status |-> HUNK_ERR_IO, err |-> PATCH_ERR_IO,
                 is_done |-> 1]
    /\ [hunk_count |-> 1, iter_status |-> HUNK_ERR_IO, err |-> PATCH_OK,
        is_done |-> 0] \in AllPublished

(***************************************************************************)
(* The shared record when execute_patch has returned                       *)
(***************************************************************************)
\* C27: when execute_patch has returned the shared record has is_done = 1
\* and its err is the value returned; the command line finds it so after
\* the join, in the state in which it tests is_done, so that it never
\* leaves by the branch for a worker that did not register itself as done,
\* and the value it compares with 0 is that of the record's err
C27_DoneWhenReturned ==
    /\ [](pc = "returned" => (status.is_done = 1 /\ status.err = ret))
    /\ [][(observer.pc = "wait" /\ observer'.pc = "exited")
            => /\ pc = "returned"
               /\ status.is_done # 0
               /\ status.err = ret
               /\ observer'.rc = rombp_patch_err_value(status.err)]_vars

\* the command line has exited after a run that ended with
\* PATCH_UNKNOWN_TYPE
C27_Witness ==
    /\ observer.pc = "exited"
    /\ observer.joined = {1}
    /\ status.is_done = 1
    /\ ret = PATCH_UNKNOWN_TYPE /\ status.err = PATCH_UNKNOWN_TYPE
    /\ observer.rc = rombp_patch_err_value(PATCH_UNKNOWN_TYPE)

(***************************************************************************)
(* The framing of the IPS stream                                           *)
(***************************************************************************)
\* the n bytes of the patch stream from position a, as a sequence
PatchBytes(a, n) == BSeq(Slice(patch_file.data, a, a + n))

\* over the step, body is written at offset and the output is left behind
\* it (an empty body changes nothing but the position); calls is the number
\* of fwrite calls made
BodyWritten(offset, body, calls) ==
    /\ output_file'.data = IF body = <<>> THEN output_file.data
                           ELSE WriteAt(output_file.data, offset, body)
    /\ output_file'.pos = offset + BLen(body)
    /\ output_file'.nwr = output_file.nwr + calls
    /\ output_file'.nsk = output_file.nsk + 1

\* a raw hunk: the stream moves over the preamble and length bytes, which
\* are the bytes written, in chunks of at most BUF_SIZE
RawFramed(a, offset, length) ==
    /\ patch_file'.pos = a + HUNK_PREAMBLE_BYTE_SIZE + length
    /\ patch_file'.nrd = patch_file.nrd + 1 + ((length + BUF_SIZE - 1) \div BUF_SIZE)
    /\ BodyWritten(offset, Slice(patch_file.data, a + HUNK_PREAMBLE_BYTE_SIZE,
                                 a + HUNK_PREAMBLE_BYTE_SIZE + length),
                   (length + BUF_SIZE - 1) \div BUF_SIZE)

\* an RLE hunk: the stream moves over the preamble and the three payload
\* bytes rl, and the value is written rle_length times
RleFramed(a, offset, rl) ==
    /\ patch_file'.pos = a + HUNK_PREAMBLE_BYTE_SIZE + RLE_PAYLOAD_BYTE_SIZE
    /\ patch_file'.nrd = patch_file.nrd + 2
    /\ BodyWritten(offset, BFill(rl[1] * 256 + rl[2], rl[3]), rl[1] * 256 + rl[2])

HunkFramed(a, pre) ==
    /\ Last(trace'.hunks) = [offset |-> pre[1] * 65536 + pre[2] * 256 + pre[3],
                             length |-> pre[4] * 256 + pre[5],
                             at |-> pre[1] * 65536 + pre[2] * 256 + pre[3]]
    /\ IF pre[4] * 256 + pre[5] # 0
       THEN RawFramed(a, pre[1] * 65536 + pre[2] * 256 + pre[3], pre[4] * 256 + pre[5])
       ELSE RleFramed(a, pre[1] * 65536 + pre[2] * 256 + pre[3],
                      PatchBytes(a + HUNK_PREAMBLE_BYTE_SIZE, RLE_PAYLOAD_BYTE_SIZE))

\* C28: a call of ips_next that returns HUNK_NEXT moves the patch stream
\* by 5 + length bytes for a raw hunk and by 8 bytes for an RLE hunk, and
\* writes the length bytes that follow the preamble (the value, rle_length
\* times) into the output at offset, a raw hunk longer than BUF_SIZE in
\* several chunks; the input file is not touched
C28_StreamFraming ==
    [][(IpsNextRound /\ Last(trace'.next_results) = HUNK_NEXT)
         => /\ HunkFramed(patch_file.pos,
                          PatchBytes(patch_file.pos, HUNK_PREAMBLE_BYTE_SIZE))
            /\ patch_file'.data = patch_file.data
            /\ input_file' = input_file]_vars

\* a raw hunk longer than BUF_SIZE has been applied in two chunks, and the
\* patch stream is behind its body
C28_Witness ==
    /\ pc = "loop" /\ patch_type = PATCH_TYPE_IPS
    /\ trace.next_results = <<HUNK_NEXT>>
    /\ trace.hunks[1].length > BUF_SIZE
    /\ output_file.nwr >= 2
    /\ patch_file.pos = IPS_MARKER_SIZE + HUNK_PREAMBLE_BYTE_SIZE + trace.hunks[1].length
    /\ output_file.pos = trace.hunks[1].offset + trace.hunks[1].length

(***************************************************************************)
(* The end of a BPS patch                                                  *)
(***************************************************************************)

\* the last twelve bytes of the patch file
BpsTrailer == BSeq(Slice(patch, BLen(patch) - BPS_TRAILER_SIZE, BLen(patch)))

\* the four checks on what the run has left behind, in their order: the
\* size of the target against the header, the checksum of the source bytes
\* read, of the target as written and of the patch before its trailer
BpsSizeOk == patch_ctx.target_size = BLen(output_file.data)
BpsSourceCrcOk == crc32_finalize(patch_ctx.source_crc) = u32_le(SubSeq(BpsTrailer, 1, 4))
BpsTargetCrcOk == crc32(BSeq(output_file.data)) = u32_le(SubSeq(BpsTrailer, 5, 8))
BpsPatchCrcOk ==
    crc32(BSeq(BTake(patch, BLen(patch) - BPS_TRAILER_SIZE)))
        = u32_le(SubSeq(BpsTrailer, 9, 12))

BpsFirstFailing ==
    IF ~BpsSizeOk THEN PATCH_INVALID_OUTPUT_SIZE
    ELSE IF ~BpsSourceCrcOk THEN PATCH_INVALID_OUTPUT_CHECKSUM
    ELSE IF ~BpsTargetCrcOk THEN PATCH_INVALID_OUTPUT_CHECKSUM
    ELSE IF ~BpsPatchCrcOk THEN PATCH_INVALID_OUTPUT_CHECKSUM
    ELSE PATCH_OK

\* the twelve bytes of the trailer were read
BpsTrailerRead == ~patch_file.err /\ ~patch_file.eof

LoopReportedDone ==
    trace.next_results # <<>> /\ Last(trace.next_results) = HUNK_DONE

TargetCopyWord == BAt(patch_file.data, patch_file.pos) - 128
TargetCopyDeltaRaw == BAt(patch_file.data, patch_file.pos + 1) - 128
TargetCopyLength == (TargetCopyWord \div 4) + 1
TargetCopyDelta ==
    IF TargetCopyDeltaRaw % 2 = 1 THEN 0 - (TargetCopyDeltaRaw \div 2)
    ELSE TargetCopyDeltaRaw \div 2

\* out_pos - target_cursor once the delta is applied
TargetCopyGap == patch_ctx.out_pos - (patch_ctx.target_cursor + TargetCopyDelta)

\* a round of the loop that decodes a TargetCopy action, nothing failing
\* in stdio
TargetCopyRound ==
    /\ pc = "loop" /\ pc' = "loop" /\ patch_type = PATCH_TYPE_BPS
    /\ fault = NoFault
    /\ local_status.iter_status = HUNK_NEXT
    /\ patch_ctx.out_pos # patch_ctx.target_size
    /\ patch_file.pos + 1 < BLen(patch_file.data)
    /\ TargetCopyWord >= 0 /\ TargetCopyWord % 4 = 3
    /\ TargetCopyDeltaRaw >= 0

\* the action has written TargetCopyLength bytes behind the target as it
\* was, periodic with period gap, repeating the last gap bytes of it
TargetCopyPeriodic(gap) ==
    /\ Last(trace'.next_results) = HUNK_NEXT
    /\ BLen(output_file'.data) = BLen(output_file.data) + TargetCopyLength
    /\ BTake(output_file'.data, BLen(output_file.data)) = output_file.data
    /\ gap <= BLen(output_file.data)
    /\ \A i \in 0..(TargetCopyLength - 1) :
           BAt(output_file'.data, BLen(output_file.data) + i)
               = BAt(output_file.data, BLen(output_file.data) - gap + (i % gap))

IterRank(s) == CASE s = HUNK_NONE -> 0 [] s = HUNK_NEXT -> 1 [] OTHER -> 2

\* snapshot b is not behind snapshot a
Forward(a, b) ==
    /\ a.hunk_count <= b.hunk_count
    /\ a.is_done <= b.is_done
    /\ IterRank(a.iter_status) <= IterRank(b.iter_status)

\* rombp_read_patch_status returns, and it has returned before since the
\* worker was started
ReadAgain ==
    observer.pc = "copy" /\ observer'.pc = "switch" /\ observer.last_read # <<>>

\* C26: during one run what a read of the shared record returns is not
\* behind what the read before it returned: hunk_count has not decreased,
\* is_done has not gone from 1 to 0 and iter_status has not moved back in
\* the order HUNK_NONE, HUNK_NEXT, then HUNK_DONE or HUNK_ERR_IO
C26_ReadsMoveForward ==
    [][ReadAgain => Forward(observer.last_read[1], observer'.local_status)]_vars

(***************************************************************************)
(* The patch command ui_handle_event hands out                             *)
(***************************************************************************)

\* C29: whenever ui_handle_event returns EV_PATCH_COMMAND, the three paths
\* of the patch command, input_file, ips_file and output_file, are all
\* non-NULL
C29_CommandComplete ==
    [][(observer.pc = "event" /\ observer'.event = EV_PATCH_COMMAND
        /\ observer'.pc = "poll")
         => /\ observer'.command.input_file # "NULL"
            /\ observer'.command.ips_file # "NULL"
            /\ observer'.command.output_file # "NULL"]_vars

(***************************************************************************)
(* The selection of the menu                                               *)
(***************************************************************************)

\* the selection and the paging offset are in range for namelist_size
SelectionInRange(ui) ==
    /\ 0 <= ui.selected_item
    /\ ui.selected_item < Min(ui.menu_item_count, ui.namelist_size)
    /\ 0 <= ui.selected_offset
    /\ ui.selected_offset
           <= ui.namelist_size - Min(ui.menu_item_count, ui.namelist_size)

\* C30: with a listing of at least one entry, after any UP and DOWN keys
\* and directory changes, 0 <= selected_item < min(MENU_ITEM_COUNT,
\* namelist_size), 0 <= selected_offset <= namelist_size -
\* min(MENU_ITEM_COUNT, namelist_size), and selected_item +
\* selected_offset is the index of an entry of the listing
C30_SelectionInRange ==
    observer.ui.namelist_size >= 1
        => SelectionInRange(observer.ui) /\ SelectionListed(observer.ui)

(***************************************************************************)
(* The prompt of the nav bar and the screen                                *)
(***************************************************************************)

\* a ROM has been chosen and no patch file yet
RomChosenOnly(command) == command.input_file # "NULL" /\ command.ips_file = "NULL"

\* C31: after any select and back events the nav bar shows the ROM prompt
\* whenever current_screen is SELECT_ROM and the IPS prompt whenever it is
\* SELECT_IPS, and current_screen is SELECT_IPS exactly when input_file is
\* non-NULL and ips_file is NULL
C31_PromptMatchesScreen ==
    /\ observer.ui.current_screen = SELECT_ROM
          => observer.ui.nav_bar.text = STATUS_BAR_TEXT_ROM
    /\ observer.ui.current_screen = SELECT_IPS
          => observer.ui.nav_bar.text = STATUS_BAR_TEXT_IPS
    /\ observer.ui.current_screen = SELECT_IPS <=> RomChosenOnly(observer.command)

====
